---------------------------- MODULE Spec2Model ----------------------------
(***************************************************************************)
(* A model of the question parser (src/question-parser.js): the schema     *)
(* normalizer, the bulk parser and the rich-text traversal engine.         *)
(*                                                                         *)
(* JavaScript values are tagged records.  A string is a sequence of        *)
(* symbols; a symbol is one character or an indivisible run of characters  *)
(* that holds none of the characters the code inspects one by one.         *)
(* An exception (TypeError, SyntaxError) is the value Throw, which every   *)
(* operator hands on to its caller as the code's missing try/catch does.   *)
(***************************************************************************)
EXTENDS Integers, Sequences, FiniteSets, TLC

VARIABLES
    raw,        \* normalizer: the object handed to normalizeToV40Schema
    first,      \* normalizer: what the first call returned (or Throw)
    second,     \* normalizer: what the call on first's result returned
    stage,      \* normalizer: position of the run under way
    report,     \* validator: what validateQuestion returned (or Throw)
    jsonText,   \* bulk parser: the text handed to parseMixedJson
    cursor,     \* bulk parser: symbols of the trimmed text the scan has consumed (i)
    buffer,     \* bulk parser: the symbols collected since the last reset
    braceCount, \* bulk parser: depth of open braces outside strings
    inString,   \* bulk parser: the scan is inside a quoted string
    escape,     \* bulk parser: the previous symbol was a backslash
    results,    \* bulk parser: the questions pushed so far
    parsePc,    \* bulk parser: "idle", "start", "scan" or "done"
    heap,       \* image utilities: the objects and arrays in memory, by address
    subject,    \* image utilities: the caller's question, a reference into the heap
    snapshot,   \* image utilities: the caller's question as a value before the call
    store,      \* image utilities: the imageStore or cdnResults map handed in
    resolved,   \* image utilities: what the call returned
    visits,     \* image utilities: the transformer's invocations, <<path, text>> in order
    tags,       \* image utilities: the set extractImageTags built
    callPc,     \* image utilities: "idle", "ready" or the call that was made
    richText,   \* renderer: the text handed to formatRichText
    imageResolver,     \* renderer: options.imageResolver, the URL of each id it resolves
    html,              \* renderer: the local result, in the end the value returned
    imagePlaceholders, \* renderer: the markup kept aside for each image token
    gapPlaceholders,   \* renderer: the markup kept aside for each gap
    renderPc,   \* renderer: "idle", "called", then the step formatRichText has completed
    currentSection, \* builder: appState.currentSection
    questions,      \* builder: appState.questions, the selected {id, marks, section}
    sectionConfig,  \* builder: appState.sectionConfig, whether each section is skipped
    toggleSkip,     \* builder: the skip checkbox is checked
    totalMarks,     \* builder: the grand total on display
    sectionMarks,   \* builder: the total of the current section on display
    builderPc       \* builder: "idle" or "open"

normalizerVars == <<raw, first, second, stage, report>>
parserVars == <<jsonText, cursor, buffer, braceCount, inString, escape, results, parsePc>>
imageVars == <<heap, subject, snapshot, store, resolved, visits, tags, callPc>>
rendererVars == <<richText, imageResolver, html, imagePlaceholders, gapPlaceholders, renderPc>>
builderVars == <<currentSection, questions, sectionConfig, toggleSkip, totalMarks, sectionMarks,
                 builderPc>>
vars == <<normalizerVars, parserVars, imageVars, rendererVars, builderVars>>

-----------------------------------------------------------------------------
(* JavaScript values *)

Undefined == [t |-> "undefined"]
Null      == [t |-> "null"]
NaN       == [t |-> "nan"]
Throw     == [t |-> "throw"]
Str(s)    == [t |-> "string", s |-> s]
Num(n)    == [t |-> "number", n |-> n]
Bool(b)   == [t |-> "boolean", b |-> b]
Arr(a)    == [t |-> "array", a |-> a]
Obj(f)    == [t |-> "object", o |-> f]
Fun(n)    == [t |-> "function", name |-> n]

S(w)      == Str(<<w>>)
Empty     == Str(<<>>)
NoFields  == <<>>

IsStr(v)  == v.t = "string"
IsArr(v)  == v.t = "array"
IsObj(v)  == v.t = "object"
Nullish(v) == v.t \in {"undefined", "null"}
\* typeof v === 'object'
TypeofObject(v) == v.t \in {"object", "array", "null"}

Truthy(v) ==
    CASE v.t \in {"undefined", "null", "nan", "throw"} -> FALSE
      [] v.t = "string"  -> Len(v.s) > 0
      [] v.t = "number"  -> v.n # 0
      [] v.t = "boolean" -> v.b
      [] OTHER -> TRUE

\* a || b  and  a ?? b
Or(a, b)       == IF Truthy(a) THEN a ELSE b
Coalesce(a, b) == IF Nullish(a) THEN b ELSE a

Has(v, k) == IsObj(v) /\ k \in DOMAIN v.o
\* v.k and v?.k for a v that is not null or undefined (a primitive has no own fields)
Get(v, k) == IF Has(v, k) THEN v.o[k] ELSE Undefined
\* v.k = x: an assignment to a field of a primitive is dropped (the script is not strict)
Put(v, k, x) == IF IsObj(v) THEN Obj((k :> x) @@ v.o) ELSE v
\* delete v.k
Del(v, k) == IF IsObj(v) THEN Obj([j \in DOMAIN v.o \ {k} |-> v.o[j]]) ELSE v
\* v.length
LengthOf(v) ==
    CASE v.t = "array"  -> Num(Len(v.a))
      [] v.t = "string" -> Num(Len(v.s))
      [] OTHER -> Undefined

\* A key that an object literal does not own is looked up in Object.prototype
ProtoLookup(k) ==
    CASE k = <<"constructor">> -> Fun("Object")
      [] k = <<"__proto__">>   -> Obj(NoFields)
      [] OTHER -> Undefined

\* a.map(f) and a.forEach(f) exist on arrays only; f may throw
MapArr(a, F(_, _)) ==
    IF ~IsArr(a) THEN Throw
    ELSE LET r == [i \in 1..Len(a.a) |-> F(a.a[i], i)]
         IN  IF \E i \in 1..Len(a.a) : r[i] = Throw THEN Throw ELSE Arr(r)

RECURSIVE Flatten(_)
Flatten(ss) == IF ss = <<>> THEN <<>> ELSE Head(ss) \o Flatten(Tail(ss))

Digits == <<"0", "1", "2", "3", "4", "5", "6", "7", "8", "9">>
\* String(n) for the small naturals that index an array
RECURSIVE NatToSyms(_)
NatToSyms(n) == IF n < 10 THEN <<Digits[n + 1]>>
                ELSE NatToSyms(n \div 10) \o <<Digits[(n % 10) + 1]>>

\* String(v), as a template literal or Array.join applies it
ToStringJs(v) ==
    CASE v.t = "string" -> v.s
      [] v.t = "number" -> IF v.n >= 0 THEN NatToSyms(v.n) ELSE <<"-">> \o NatToSyms(-v.n)
      [] v.t = "boolean" -> IF v.b THEN <<"true">> ELSE <<"false">>
      [] v.t = "array" -> <<>>
      [] OTHER -> <<"[object Object]">>

-----------------------------------------------------------------------------
(* Constants and utility helpers of the parser *)

QUESTION_TYPES == {S("MCQ"), S("FIB"), S("MATCH"), S("SUBJECTIVE"), S("TABLE"), S("COMPOSITE")}
TABLE_GRID_VALUES == {S("all"), S("none"), S("horizontal"), S("vertical")}

BASE_STYLE      == Obj([image_layout |-> S("vertical")])
MCQ_STYLE       == Obj([image_layout |-> S("vertical"), options_layout |-> S("vertical")])
COMPOSITE_STYLE == Obj([image_layout |-> S("vertical"), sub_questions_layout |-> S("vertical")])
TABLE_STYLE     == Obj([image_layout |-> S("vertical"), table_grid_lines |-> S("all"),
                        hide_header |-> Bool(FALSE)])

\* toLowerCase and toUpperCase of one symbol of the vocabulary
LowerSym(w) ==
    CASE w = "MCQ" -> "mcq"
      [] w = "FIB" -> "fib"
      [] w = "MATCH" -> "match"
      [] w = "SUBJECTIVE" -> "subjective"
      [] w = "TABLE" -> "table"
      [] w = "COMPOSITE" -> "composite"
      [] w = "Long_Answer" -> "long_answer"
      [] w = "EXAM" -> "exam"
      [] w = "Hard" -> "hard"
      [] w = "M" -> "m"
      [] w = "E" -> "e"
      [] w = "P" -> "p"
      [] w = "H" -> "h"
      [] OTHER -> w
UpperSym(w) ==
    CASE w = "m" -> "M"
      [] w = "e" -> "E"
      [] w = "p" -> "P"
      [] w = "h" -> "H"
      [] OTHER -> w
\* str.charAt(0).toUpperCase() + str.slice(1).toLowerCase() of a one-symbol word
CapitalSym(w) ==
    CASE w \in {"medium", "Medium", "MEDIUM"} -> "Medium"
      [] w \in {"easy", "Easy"} -> "Easy"
      [] w \in {"hard", "Hard"} -> "Hard"
      [] w \in {"mathematics", "Mathematics"} -> "Mathematics"
      [] w \in {"practice", "Practice"} -> "Practice"
      [] w \in {"exam", "EXAM", "Exam"} -> "Exam"
      [] OTHER -> UpperSym(LowerSym(w))

ToLowerCase(v) == IF IsStr(v) THEN Str([i \in 1..Len(v.s) |-> LowerSym(v.s[i])]) ELSE Throw

capitalizeFirst(str) ==
    IF ~Truthy(str) THEN str
    ELSE IF ~IsStr(str) THEN Throw
    ELSE Str(<<CapitalSym(Head(str.s))>> \o [i \in 1..(Len(str.s) - 1) |-> LowerSym(str.s[i + 1])])

\* Date.now() and Math.random() are the caller's choice of gid
generateId(gid) == Str(<<"Q", gid>>)

NumeralValue(w) ==
    CASE w = "0" -> 0 [] w = "1" -> 1 [] w = "2" -> 2 [] w = "3" -> 3 [] w = "4" -> 4
      [] w = "5" -> 5 [] w = "6" -> 6 [] w = "7" -> 7 [] w = "8" -> 8 [] w = "9" -> 9
      [] OTHER -> -1
\* parseInt(v): the leading decimal digits of String(v)
parseInt(v) ==
    CASE v.t = "number" -> v
      [] v.t = "string" ->
            IF Len(v.s) > 0 /\ NumeralValue(Head(v.s)) >= 0
            THEN Num(NumeralValue(Head(v.s))) ELSE NaN
      [] OTHER -> NaN

getTextValue(data) ==
    IF ~Truthy(data) THEN Empty
    ELSE IF IsStr(data) THEN data
    ELSE IF TypeofObject(data) /\ Get(data, "text") # Undefined THEN Or(Get(data, "text"), Empty)
    ELSE IF TypeofObject(data) /\ Get(data, "value") # Undefined THEN Or(Get(data, "value"), Empty)
    ELSE Empty

\* s.replace(/\.[^.]+$/, ''): the last dot and what follows it, when something does
StripExtension(s) ==
    LET dots == {i \in 1..Len(s) : s[i] = "." /\ i < Len(s)
                                   /\ \A j \in (i + 1)..Len(s) : s[j] # "."}
    IN  IF dots = {} THEN s ELSE SubSeq(s, 1, (CHOOSE i \in dots : TRUE) - 1)

\* asset.filename?.replace(...)
FilenameStem(asset) ==
    LET f == Get(asset, "filename")
    IN  IF Nullish(f) THEN Undefined
        ELSE IF IsStr(f) THEN Str(StripExtension(f.s))
        ELSE Throw

assetToToken(asset) ==
    IF ~Truthy(asset) THEN Null
    ELSE IF Truthy(Get(asset, "asset_id")) THEN
            (IF Get(asset, "asset_id") = S("#") THEN Null
             ELSE Str(<<"[", "[">> \o ToStringJs(Get(asset, "asset_id")) \o <<"]", "]">>))
    ELSE LET stem == FilenameStem(asset)
             tag  == Or(Or(stem, Get(asset, "tag")), Get(asset, "id"))
         IN  IF stem = Throw THEN Throw
             ELSE IF ~Truthy(tag) \/ tag = S("#") THEN Null
             ELSE Str(<<"[", "[">> \o ToStringJs(tag) \o <<"]", "]">>)

\* Evaluate x once and hand it on: K(x), or Throw when x threw
Try(x, K(_)) == IF x = Throw THEN Throw ELSE K(x)
Let(x, K(_)) == K(x)

\* The tokens of  x.assets || x.media || []  in order; Throw when that is no array
AssetTokens(x) ==
    MapArr(Or(Or(Get(x, "assets"), Get(x, "media")), Arr(<<>>)),
           LAMBDA a, i : assetToToken(a))

\* parts.join('\n\n') of the truthy parts
JoinKept(kept) ==
    Str(Flatten([i \in 1..Len(kept) |->
           IF i = 1 THEN ToStringJs(kept[i]) ELSE <<"\n\n">> \o ToStringJs(kept[i])]))
JoinParts(parts) == JoinKept(SelectSeq(parts, LAMBDA p : Truthy(p)))

buildRichTextContent(prompt, stimulus) ==
    Try(IF Truthy(stimulus) THEN AssetTokens(stimulus) ELSE Arr(<<>>),
        LAMBDA stimulusTokens :
    Try(IF Truthy(prompt) /\ TypeofObject(prompt) THEN AssetTokens(prompt) ELSE Arr(<<>>),
        LAMBDA promptTokens :
            JoinParts((IF Truthy(stimulus) THEN <<getTextValue(stimulus)>> ELSE <<>>)
                      \o stimulusTokens.a \o <<getTextValue(prompt)>> \o promptTokens.a)))

-----------------------------------------------------------------------------
(* Old-schema conversion *)

\* typeMap[normalized] || 'SUBJECTIVE'; typeMap is an object literal
TypeMapEntry(k) ==
    CASE k \in {<<"mcq">>, <<"multiple_choice">>, <<"sequencing">>, <<"sorting">>} -> S("MCQ")
      [] k \in {<<"short_answer">>, <<"long_answer">>, <<"labelling">>} -> S("SUBJECTIVE")
      [] k \in {<<"fill_blank">>, <<"fill_in_blank">>, <<"fib">>} -> S("FIB")
      [] k \in {<<"match_columns">>, <<"matching">>, <<"match">>} -> S("MATCH")
      [] k = <<"composite">> -> S("COMPOSITE")
      [] OTHER -> ProtoLookup(k)

mapOldTypeToNew(oldType) ==
    Try(ToLowerCase(oldType),
        LAMBDA normalized : Or(TypeMapEntry(normalized.s), S("SUBJECTIVE")))

\* String.fromCharCode(97 + idx), idx counted from 0
OptionLetters == <<"a", "b", "c", "d", "e", "f">>

\* text.trim(): the byte order mark counts as white space
BOM == "\\uFEFF"
WhiteSpace == {" ", "\n", BOM}
RECURSIVE TrimLeft(_)
TrimLeft(s) == IF s # <<>> /\ Head(s) \in WhiteSpace THEN TrimLeft(Tail(s)) ELSE s
RECURSIVE TrimRight(_)
TrimRight(s) == IF s # <<>> /\ s[Len(s)] \in WhiteSpace
                THEN TrimRight(SubSeq(s, 1, Len(s) - 1)) ELSE s
Trim(v) == IF IsStr(v) THEN Str(TrimRight(TrimLeft(v.s))) ELSE Throw

\* token + ' ' + text for each token in turn: the last token ends up first
RECURSIVE PrependTokens(_, _)
PrependTokens(tokens, text) ==
    IF tokens = <<>> THEN text
    ELSE PrependTokens(Tail(tokens),
            IF Truthy(Head(tokens))
            THEN Str(Head(tokens).s \o <<" ">> \o ToStringJs(text)) ELSE text)

buildOptionText(opt) ==
    IF IsStr(opt) THEN opt
    ELSE IF Nullish(opt) THEN Throw
    ELSE Try(AssetTokens(opt), LAMBDA tokens :
         Try(IF Truthy(Get(opt, "asset")) THEN assetToToken(Get(opt, "asset")) ELSE Null,
             LAMBDA single :
                Trim(PrependTokens(tokens.a \o <<single>>, Or(Get(opt, "text"), Empty)))))

MultiSelect(oldType) == oldType = S("multiple_selection") \/ oldType = S("multi_select")

buildMCQData(content, options, oldType) ==
    Try(MapArr(Or(options, Arr(<<>>)),
               LAMBDA opt, i :
                  IF Nullish(opt) THEN Throw
                  ELSE Try(buildOptionText(opt), LAMBDA text :
                           Obj([id |-> Or(Or(Get(opt, "id"), Get(opt, "opt_id")),
                                          S(OptionLetters[i])),
                                text |-> text]))),
        LAMBDA opts :
            IF MultiSelect(oldType)
            THEN Obj([content |-> content, style |-> MCQ_STYLE, options |-> opts,
                      allow_multiple |-> Bool(TRUE)])
            ELSE Obj([content |-> content, style |-> MCQ_STYLE, options |-> opts]))

\* stimulus?.word_bank
WordBank(stimulus) == IF Nullish(stimulus) THEN Undefined ELSE Get(stimulus, "word_bank")

buildFIBData(content, stimulus) ==
    IF ~Truthy(WordBank(stimulus)) THEN Obj([content |-> content, style |-> MCQ_STYLE])
    ELSE Try(MapArr(WordBank(stimulus), LAMBDA item, i :
                 IF IsStr(item) THEN item
                 ELSE IF Nullish(item) THEN Throw ELSE Get(item, "text")),
             LAMBDA pool :
                 Obj([content |-> content, style |-> MCQ_STYLE, options_pool |-> pool]))

\* col[i]?.text || ''
ColumnText(col, i) ==
    IF IsArr(col) /\ i <= Len(col.a) /\ ~Nullish(col.a[i])
    THEN Or(Get(col.a[i], "text"), Empty) ELSE Empty

\* Math.max(leftCol.length, rightCol.length); a column that is no array has no length, the
\* maximum is then NaN and the loop does not run
MaxLength(leftCol, rightCol) ==
    IF ~IsArr(leftCol) \/ ~IsArr(rightCol) THEN 0
    ELSE IF Len(leftCol.a) > Len(rightCol.a) THEN Len(leftCol.a) ELSE Len(rightCol.a)

ZipPairs(leftCol, rightCol) ==
    Arr([i \in 1..MaxLength(leftCol, rightCol) |->
            Obj([left |-> ColumnText(leftCol, i), right |-> ColumnText(rightCol, i)])])

\* stimulus?.pairs
OldPairs(stimulus) == IF Nullish(stimulus) THEN Undefined ELSE Get(stimulus, "pairs")

buildMatchData(content, stimulus) ==
    Obj([content |-> content, style |-> BASE_STYLE,
         pairs |-> IF Truthy(OldPairs(stimulus))
                   THEN ZipPairs(Or(Get(OldPairs(stimulus), "left_column"), Arr(<<>>)),
                                 Or(Get(OldPairs(stimulus), "right_column"), Arr(<<>>)))
                   ELSE Arr(<<>>)])

buildSubjectiveData(content, oldType) ==
    Obj([content |-> content, style |-> BASE_STYLE,
         expected_length |-> IF oldType = S("long_answer") THEN S("long") ELSE S("short")])

\* [rowLabel, '', ...] of numCols cells (one cell when numCols < 1)
LabelRow(label, numCols) ==
    Arr([i \in 1..(IF numCols < 1 THEN 1 ELSE numCols) |-> IF i = 1 THEN label ELSE Empty])

\* typeof x === 'string' ? x : (x.text || '')
TextOrSelf(x) == IF IsStr(x) THEN x ELSE IF Nullish(x) THEN Throw ELSE Or(Get(x, "text"), Empty)

\* The table of buildTableData: passed through, built from rows/columns, or the empty grid
OldTable(table, rows, cols) ==
    IF Truthy(table)
    THEN Let(IF IsArr(Get(table, "rows")) THEN Get(table, "rows")
             ELSE Arr(<<Arr(<<Empty, Empty>>), Arr(<<Empty, Empty>>)>>),
             LAMBDA r : IF IsArr(Get(table, "header"))
                        THEN Obj([rows |-> r, header |-> Get(table, "header")])
                        ELSE Obj([rows |-> r]))
    ELSE IF Truthy(rows) /\ Truthy(cols)
    THEN Try(MapArr(cols, LAMBDA col, i : TextOrSelf(col)), LAMBDA header :
         Try(MapArr(rows, LAMBDA row, i :
                 Try(TextOrSelf(row), LAMBDA label :
                     LabelRow(label, IF Len(cols.a) > 0 THEN Len(cols.a) ELSE 2))),
             LAMBDA grid : Obj([header |-> header, rows |-> grid])))
    ELSE Obj([rows |-> Arr(<<Arr(<<Empty, Empty>>), Arr(<<Empty, Empty>>)>>)])

\* The style of buildTableData: TABLE_STYLE with the old style's settings kept
OldTableStyle(style) ==
    Let(IF Truthy(Get(style, "table_grid_lines"))
        THEN Put(TABLE_STYLE, "table_grid_lines", Get(style, "table_grid_lines"))
        ELSE TABLE_STYLE, LAMBDA s1 :
    Let(IF Get(style, "hide_header") = Undefined THEN s1
        ELSE IF Get(style, "hide_header").t = "boolean"
             THEN Put(s1, "hide_header", Get(style, "hide_header"))
        ELSE Put(s1, "hide_header", Bool(Get(style, "hide_header") # S("none"))), LAMBDA s2 :
        IF IsArr(Get(style, "column_widths"))
        THEN Put(s2, "column_widths", Get(style, "column_widths")) ELSE s2))

buildTableData(content, oldContent) ==
    Try(OldTable(Get(oldContent, "table"), Get(oldContent, "rows"), Get(oldContent, "columns")),
        LAMBDA tbl : Obj([content |-> content, style |-> OldTableStyle(Get(oldContent, "style")),
                          table |-> tbl]))

RECURSIVE convertContentToData(_, _, _)
RECURSIVE buildCompositeData(_)

\* One turn of the map over the old sub-questions
ConvertSubQuestion(sq) ==
    IF Nullish(sq) THEN Throw
    ELSE Try(mapOldTypeToNew(Or(Get(sq, "type"), S("short_answer"))), LAMBDA subType :
         Try(convertContentToData(Obj([prompt |-> Get(sq, "prompt"),
                                       stimulus |-> Get(sq, "stimulus"),
                                       options |-> Get(sq, "options")]),
                                  subType, Get(sq, "type")),
             LAMBDA data :
                Obj([id |-> Or(Or(Get(sq, "sub_id"), Get(sq, "id")), S("a")),
                     type |-> subType, data |-> data])))

\* commonContent += '\n\n' + promptText
AppendPrompt(commonContent, prompt) ==
    IF Truthy(prompt) /\ Truthy(getTextValue(prompt))
    THEN Str(commonContent.s \o <<"\n\n">> \o ToStringJs(getTextValue(prompt)))
    ELSE commonContent

buildCompositeData(content) ==
    Try(IF Truthy(Get(content, "stimulus"))
        THEN buildRichTextContent(Null, Get(content, "stimulus")) ELSE Empty,
        LAMBDA stimulusContent :
    Try(MapArr(Or(Or(Get(content, "subquestions"), Get(content, "sub_questions")), Arr(<<>>)),
               LAMBDA sq, i : ConvertSubQuestion(sq)),
        LAMBDA subQuestions :
            Obj([common_content |-> AppendPrompt(stimulusContent, Get(content, "prompt")),
                 style |-> COMPOSITE_STYLE,
                 sub_questions |-> subQuestions])))

\* The switch of convertContentToData, content being an object by now
DataForType(content, mainContent, newType, oldType) ==
    CASE newType = S("MCQ") -> buildMCQData(mainContent, Get(content, "options"), oldType)
      [] newType = S("FIB") -> buildFIBData(mainContent, Get(content, "stimulus"))
      [] newType = S("MATCH") -> buildMatchData(mainContent, Get(content, "stimulus"))
      [] newType = S("SUBJECTIVE") -> buildSubjectiveData(mainContent, oldType)
      [] newType = S("TABLE") -> buildTableData(mainContent, content)
      [] newType = S("COMPOSITE") -> buildCompositeData(content)
      [] OTHER -> Obj([content |-> mainContent])

convertContentToData(content, newType, oldType) ==
    Let(IF Truthy(content) THEN content ELSE Obj(NoFields), LAMBDA c :
    Try(buildRichTextContent(Get(c, "prompt"), Get(c, "stimulus")), LAMBDA mainContent :
        DataForType(c, mainContent, newType, oldType)))

-----------------------------------------------------------------------------
(* The defaulting pass *)

getStyleForType(type) ==
    CASE type \in {S("MCQ"), S("FIB")} -> MCQ_STYLE
      [] type = S("COMPOSITE") -> COMPOSITE_STYLE
      [] type = S("TABLE") -> TABLE_STYLE
      [] OTHER -> BASE_STYLE

DefaultTable ==
    Obj([header |-> Arr(<<Str(<<"Column", " ", "1">>), Str(<<"Column", " ", "2">>)>>),
         rows |-> Arr(<<Arr(<<Str(<<"Row", " ", "1">>), Empty>>),
                        Arr(<<Str(<<"Row", " ", "2">>), Empty>>)>>)])

getDefaultDataForType(type) ==
    CASE type = S("MCQ") ->
            Obj([content |-> Empty, style |-> getStyleForType(S("MCQ")), options |-> Arr(<<>>)])
      [] type = S("FIB") -> Obj([content |-> Empty, style |-> getStyleForType(S("FIB"))])
      [] type = S("MATCH") ->
            Obj([content |-> Empty, style |-> getStyleForType(S("MATCH")), pairs |-> Arr(<<>>)])
      [] type = S("SUBJECTIVE") ->
            Obj([content |-> Empty, style |-> getStyleForType(S("SUBJECTIVE")),
                 expected_length |-> S("short")])
      [] type = S("TABLE") ->
            Obj([content |-> Empty, style |-> getStyleForType(S("TABLE")), table |-> DefaultTable])
      [] type = S("COMPOSITE") ->
            Obj([common_content |-> Empty, style |-> getStyleForType(S("COMPOSITE")),
                 sub_questions |-> Arr(<<>>)])
      [] OTHER -> Obj([content |-> Empty, style |-> getStyleForType(type)])

\* A value map whose image is not fixed by it: 'grid' goes to 'stack', 'stack' to 'vertical'
ValueMapEntryChained(v) ==
    CASE v = S("stack") -> S("vertical")
      [] v = S("grid")  -> S("stack")
      [] OTHER -> IF IsStr(v) THEN ProtoLookup(v.s) ELSE Undefined

\* valueMap[v]: valueMap is an object literal, its keys are strings
ValueMapEntry(v) ==
    CASE v = S("stack") -> S("vertical")
      [] v = S("grid")  -> S("horizontal")
      [] OTHER -> IF IsStr(v) THEN ProtoLookup(v.s) ELSE Undefined

\* if (normalized[k] && valueMap[normalized[k]]) normalized[k] = valueMap[normalized[k]]
MapLayout(style, k) ==
    IF Truthy(Get(style, k)) /\ Truthy(ValueMapEntry(Get(style, k)))
    THEN Put(style, k, ValueMapEntry(Get(style, k))) ELSE style

\* x[k] = x[k] || dflt  and  x[k] = x[k] ?? dflt
DefaultField(x, k, dflt)   == Put(x, k, Or(Get(x, k), dflt))
DefaultNullish(x, k, dflt) == Put(x, k, Coalesce(Get(x, k), dflt))

\* The TABLE branch of normalizeStyleValues
NormalizeTableStyle(style) ==
    Let(DefaultField(style, "table_grid_lines", S("all")), LAMBDA s1 :
    Let(IF Get(s1, "table_grid_lines") \in TABLE_GRID_VALUES THEN s1
        ELSE Put(s1, "table_grid_lines", S("all")), LAMBDA s2 :
    Let(IF IsStr(Get(s2, "hide_header"))
        THEN Put(s2, "hide_header", Bool(Get(s2, "hide_header") # S("none")))
        ELSE IF Get(s2, "hide_header") = Undefined
             THEN Put(s2, "hide_header", Bool(FALSE))
        ELSE s2, LAMBDA s3 :
        IF Truthy(Get(s3, "column_widths")) /\ ~IsArr(Get(s3, "column_widths"))
        THEN Del(s3, "column_widths") ELSE s3)))

\* { ...style } of an object, a number, a boolean, null or undefined
Spread(style) == IF IsObj(style) THEN style ELSE Obj(NoFields)

normalizeStyleValues(style, type) ==
    Let(MapLayout(MapLayout(MapLayout(Spread(style), "image_layout"), "options_layout"),
                  "sub_questions_layout"), LAMBDA n1 :
    Let(DefaultField(n1, "image_layout", S("vertical")), LAMBDA n2 :
    Let(IF type \in {S("MCQ"), S("FIB")}
        THEN DefaultField(n2, "options_layout", S("vertical")) ELSE n2, LAMBDA n3 :
    Let(IF type = S("COMPOSITE")
        THEN DefaultField(n3, "sub_questions_layout", S("vertical")) ELSE n3, LAMBDA n4 :
        IF type = S("TABLE") THEN NormalizeTableStyle(n4) ELSE n4))))

\* h.text || h.id || ''
LabelOf(h) == Or(Or(Get(h, "text"), Get(h, "id")), Empty)
\* typeof h === 'object' ? (h.text || h.id || '') : h
LabelOrSelf(h) == IF TypeofObject(h) THEN (IF h = Null THEN Throw ELSE LabelOf(h)) ELSE h

\* Each row becomes [rowLabel, '', ...]
LabelRows(rows, numCols) ==
    MapArr(rows, LAMBDA row, i :
        Try(LabelOrSelf(row), LAMBDA rowLabel : LabelRow(rowLabel, numCols)))

\* data.table?.rows && Array.isArray(data.table.rows) && data.table.rows.length > 0
HasTableRows(data) ==
    /\ IsArr(Get(Get(data, "table"), "rows"))
    /\ Len(Get(Get(data, "table"), "rows").a) > 0

\* First case of normalizeTableData: the rows are a grid already, the header may hold objects
FlattenHeader(data, header) ==
    IF Truthy(header) /\ IsArr(header) /\ Len(header.a) > 0 /\ TypeofObject(header.a[1])
    THEN Try(MapArr(header, LAMBDA h, i : IF Nullish(h) THEN Throw ELSE LabelOf(h)),
             LAMBDA flat : Put(data, "table", Put(Get(data, "table"), "header", flat)))
    ELSE data

\* Second case: the rows are objects
RowsFromObjects(data, oldRows, oldHeader) ==
    Try(IF LengthOf(oldHeader) # Undefined /\ LengthOf(oldHeader).n > 0
        THEN MapArr(oldHeader, LAMBDA h, i : LabelOrSelf(h)) ELSE Arr(<<>>),
        LAMBDA header :
    Try(LabelRows(oldRows, IF Len(header.a) > 1 THEN Len(header.a) ELSE 1),
        LAMBDA newRows :
            Put(data, "table", IF Len(header.a) > 0
                               THEN Obj([rows |-> newRows, header |-> header])
                               ELSE Obj([rows |-> newRows]))))

\* The third case without lines 717-718: the legacy fields stay beside the table
RowsFromLegacyKept(data, rows, columns) ==
    Try(MapArr(columns, LAMBDA col, i : LabelOrSelf(col)), LAMBDA header :
    Try(LabelRows(rows, IF Len(columns.a) > 0 THEN Len(columns.a) ELSE 1), LAMBDA grid :
        Put(data, "table", Obj([header |-> header, rows |-> grid]))))

\* Third case: rows and columns at the root of data
RowsFromLegacy(data, rows, columns) ==
    Try(MapArr(columns, LAMBDA col, i : LabelOrSelf(col)), LAMBDA header :
    Try(LabelRows(rows, IF Len(columns.a) > 0 THEN Len(columns.a) ELSE 1), LAMBDA grid :
        Del(Del(Put(data, "table", Obj([header |-> header, rows |-> grid])),
                "rows"), "columns")))

normalizeTableData(data) ==
    IF ~Truthy(data) THEN data
    ELSE IF HasTableRows(data) /\ IsArr(Get(Get(data, "table"), "rows").a[1])
    THEN FlattenHeader(data, Get(Get(data, "table"), "header"))
    ELSE IF HasTableRows(data) /\ TypeofObject(Get(Get(data, "table"), "rows").a[1])
    THEN RowsFromObjects(data, Get(Get(data, "table"), "rows"),
                         Or(Get(Get(data, "table"), "header"), Arr(<<>>)))
    ELSE IF Truthy(Get(data, "rows")) /\ Truthy(Get(data, "columns"))
    THEN RowsFromLegacy(data, Get(data, "rows"), Get(data, "columns"))
    ELSE IF ~Truthy(Get(data, "table")) THEN Put(data, "table", DefaultTable)
    ELSE data

\* x.data.style is given its default or normalized; x is the question or a sub-question
StyleOf(x) == Get(Get(x, "data"), "style")
WithStyle(x, style) == Put(x, "data", Put(Get(x, "data"), "style", style))

\* if (x.type === 'TABLE' && x.data) x.data = normalizeTableData(x.data)
EnsureTable(x) ==
    IF Get(x, "type") = S("TABLE") /\ Truthy(Get(x, "data"))
    THEN Try(normalizeTableData(Get(x, "data")), LAMBDA data : Put(x, "data", data))
    ELSE x

\* One turn of the forEach over data.sub_questions
DefaultSubQuestion(sq) ==
    IF Nullish(sq) THEN Throw
    ELSE EnsureTable(
            IF Truthy(Get(sq, "data")) /\ ~Truthy(StyleOf(sq))
            THEN WithStyle(sq, getStyleForType(Get(sq, "type")))
            ELSE IF Truthy(StyleOf(sq))
            THEN WithStyle(sq, normalizeStyleValues(StyleOf(sq), Get(sq, "type")))
            ELSE sq)

EnsureMetadata(obj) ==
    Put(obj, "metadata",
        DefaultField(DefaultNullish(DefaultField(DefaultField(DefaultNullish(
        DefaultField(DefaultNullish(
            IF ~Truthy(Get(obj, "metadata")) THEN Obj(NoFields) ELSE Get(obj, "metadata"),
            "grade", Num(3)),
            "subject", S("Mathematics")),
            "chapter", Num(1)),
            "section", S("A")),
            "difficulty", S("Medium")),
            "marks", Num(1)),
            "pool", S("Practice")))

EnsureStyle(obj) ==
    IF ~Truthy(StyleOf(obj))
    THEN WithStyle(obj, getStyleForType(Get(obj, "type")))
    ELSE WithStyle(obj, normalizeStyleValues(StyleOf(obj), Get(obj, "type")))

EnsureSubQuestions(obj) ==
    IF ~IsArr(Get(Get(obj, "data"), "sub_questions")) THEN obj
    ELSE Try(MapArr(Get(Get(obj, "data"), "sub_questions"),
                    LAMBDA sq, i : DefaultSubQuestion(sq)),
             LAMBDA done : Put(obj, "data", Put(Get(obj, "data"), "sub_questions", done)))

EnsureSolution(obj) ==
    IF ~Truthy(Get(obj, "solution")) THEN Put(obj, "solution", Obj([text |-> Empty]))
    ELSE IF IsStr(Get(obj, "solution"))
    THEN Put(obj, "solution", Obj([text |-> Get(obj, "solution")]))
    ELSE obj

ensureV40Defaults(obj, gid) ==
    Let(IF ~Truthy(Get(obj, "id")) THEN Put(obj, "id", generateId(gid)) ELSE obj, LAMBDA o1 :
    Let(EnsureMetadata(o1), LAMBDA o2 :
    Let(IF ~Truthy(Get(o2, "type")) \/ Get(o2, "type") \notin QUESTION_TYPES
        THEN Put(o2, "type", S("SUBJECTIVE")) ELSE o2, LAMBDA o3 :
    Let(IF ~Truthy(Get(o3, "data"))
        THEN Put(o3, "data", getDefaultDataForType(Get(o3, "type"))) ELSE o3, LAMBDA o4 :
    Try(EnsureSubQuestions(EnsureStyle(o4)), LAMBDA o6 :
    Try(EnsureTable(o6), EnsureSolution))))))

-----------------------------------------------------------------------------
(* Generation detection and the two converters *)

\* The question literal both converters return; any part may have thrown
BuildQuestion(id, metadata, newType, data, solutionText) ==
    IF \E f \in DOMAIN metadata : metadata[f] = Throw THEN Throw
    ELSE IF data = Throw THEN Throw
    ELSE Obj([id |-> id, metadata |-> Obj(metadata), type |-> newType, data |-> data,
              solution |-> Obj([text |-> solutionText])])

\* The nested converter, obj.taxonomy and obj.grading in hand
FromNested(obj, taxonomy, grading, oldType, gid) ==
    Try(mapOldTypeToNew(oldType), LAMBDA newType :
        BuildQuestion(
            Or(Or(Get(obj, "question_id"), Get(obj, "id")), generateId(gid)),
            [grade |-> Or(Get(taxonomy, "grade_id"), S("grade_3")),
             subject |-> capitalizeFirst(Or(Get(taxonomy, "subject_id"), S("mathematics"))),
             chapter |-> Or(Or(Get(taxonomy, "unit_id"), Get(taxonomy, "chapter_id")), Num(1)),
             section |-> Or(Get(taxonomy, "section_id"), S("A")),
             difficulty |-> capitalizeFirst(Or(Get(taxonomy, "difficulty"), S("medium"))),
             marks |-> Or(parseInt(Get(grading, "points")), Num(1)),
             pool |-> capitalizeFirst(Or(Get(taxonomy, "pool"), S("practice")))],
            newType,
            convertContentToData(Get(obj, "content"), newType, oldType),
            Or(Get(grading, "explanation"), Empty)))

convertFromOldNestedSchema(obj, gid) ==
    FromNested(obj, Get(obj, "taxonomy"), Get(obj, "grading"),
               Or(Get(Get(obj, "taxonomy"), "type"), S("short_answer")), gid)

\* The flat converter, obj.grading in hand
FromFlat(obj, grading, oldType, gid) ==
    Try(mapOldTypeToNew(oldType), LAMBDA newType :
        BuildQuestion(
            Or(Or(Get(obj, "question_id"), Get(obj, "id")), generateId(gid)),
            [grade |-> Or(Or(Get(obj, "grade_id"), Get(obj, "grade")), S("grade_3")),
             subject |-> capitalizeFirst(
                            Or(Or(Get(obj, "subject_id"), Get(obj, "subject")), S("mathematics"))),
             chapter |-> Or(Or(Or(Get(obj, "unit_id"), Get(obj, "chapter_id")),
                               Get(obj, "chapter")), Num(1)),
             section |-> Or(Or(Get(obj, "section_id"), Get(obj, "section")), S("A")),
             difficulty |-> capitalizeFirst(Or(Get(obj, "difficulty"), S("medium"))),
             marks |-> Or(Or(parseInt(Get(obj, "points")), parseInt(Get(grading, "points"))),
                          Num(1)),
             pool |-> capitalizeFirst(Or(Or(Get(obj, "pool"), Get(obj, "pool_type")),
                                         S("practice")))],
            newType,
            convertContentToData(Obj([prompt |-> Get(obj, "prompt"),
                                      stimulus |-> Get(obj, "stimulus"),
                                      options |-> Get(obj, "options"),
                                      subquestions |-> Get(obj, "subquestions")]),
                                 newType, oldType),
            Or(Or(Get(grading, "explanation"), Get(obj, "explanation")), Empty)))

convertFromFlatSchema(obj, gid) ==
    FromFlat(obj, Get(obj, "grading"), Or(Get(obj, "type"), S("short_answer")), gid)

normalizeToV40Schema(obj, gid) ==
    IF Truthy(Get(obj, "data")) /\ Get(obj, "type") \in QUESTION_TYPES
    THEN ensureV40Defaults(obj, gid)
    ELSE IF Truthy(Get(obj, "taxonomy")) /\ Truthy(Get(obj, "content"))
    THEN convertFromOldNestedSchema(obj, gid)
    ELSE convertFromFlatSchema(obj, gid)

-----------------------------------------------------------------------------
(* The inputs of the normalizer *)

MaxRows == 2      \* rows of an input table
MaxCols == 2      \* header cells of an input table
MaxSubs == 2      \* sub-questions of an input composite

SeqsUpTo(X, n) == UNION {[1..k -> X] : k \in 0..n}

GenIds == {"1700000000000_7", "1700000000001_8"}

StyleInputs ==
    { NoFields,
      [style |-> Null],
      [style |-> Obj(NoFields)],
      [style |-> Obj([image_layout |-> S("stack"), options_layout |-> S("grid"),
                      sub_questions_layout |-> S("matrix")])],
      [style |-> Obj([image_layout |-> S("diagonal"), table_grid_lines |-> S("dotted"),
                      hide_header |-> S("row"), column_widths |-> S("wide")])],
      [style |-> Obj([image_layout |-> S("horizontal"), table_grid_lines |-> S("none"),
                      hide_header |-> S("none"), column_widths |-> Arr(<<Num(40), Num(60)>>)])] }

RowInputs    == { Arr(<<S("x"), Empty>>), Obj([text |-> S("r1")]), Obj([id |-> S("row2")]),
                  S("plain"), Null }
HeaderInputs == { S("A"), Obj([text |-> S("B")]), Obj([id |-> S("c3")]), Null }

TableValues ==
    { Obj(NoFields), S("grid") }
    \cup { Obj([rows |-> Arr(r)]) : r \in SeqsUpTo(RowInputs, MaxRows) }
    \cup { Obj([rows |-> Arr(r), header |-> Arr(h)]) :
              r \in SeqsUpTo(RowInputs, MaxRows), h \in SeqsUpTo(HeaderInputs, MaxCols) }

LegacyInputs ==
    { NoFields,
      [rows |-> Arr(<<Obj([text |-> S("r1")]), Obj([text |-> S("r2")])>>),
       columns |-> Arr(<<S("A"), S("B")>>)],
      [rows |-> Arr(<<S("r1"), Obj([id |-> S("row2")])>>),
       columns |-> Arr(<<Obj([text |-> S("A")]), Obj([id |-> S("c2")]), S("C")>>)],
      [rows |-> Arr(<<Obj([text |-> S("r1")])>>)],
      [rows |-> Arr(<<Null>>), columns |-> Arr(<<S("A")>>)],
      [rows |-> Arr(<<S("r1")>>), columns |-> S("A,B")] }

\* The table fields of a data object: table, legacy rows/columns, both or neither
TableInputs ==
    LegacyInputs
    \cup { [table |-> t] : t \in TableValues }
    \cup { [table |-> t] @@ l : t \in {Obj(NoFields), Obj([rows |-> Arr(<<>>)])},
                                l \in LegacyInputs \ {NoFields} }

TableData ==
    { [content |-> S("Tick the columns")] @@ t : t \in TableInputs }
    \cup { [content |-> S("Tick the columns")] @@ s @@ t :
              s \in StyleInputs,
              t \in { NoFields, [table |-> Obj([rows |-> Arr(<<Arr(<<S("x")>>)>>)])] } }

PlainData(type) ==
    CASE type = S("MCQ") ->
            { [content |-> S("2+2?"),
               options |-> Arr(<<Obj([id |-> S("a"), text |-> S("3")]),
                                 Obj([id |-> S("b"), text |-> S("4")])>>)] }
      [] type = S("FIB") -> { [content |-> Str(<<"I ", "[", "[", "gap", "]", "]", " here">>),
                               options_pool |-> Arr(<<S("am"), S("was")>>)] }
      [] type = S("MATCH") ->
            { [content |-> S("Match"),
               pairs |-> Arr(<<Obj([left |-> S("1"), right |-> S("one")])>>)] }
      [] OTHER -> { [content |-> S("Explain"), expected_length |-> S("long")] }

\* Sub-questions as an input composite may hold them
LeafSubs ==
    { Null,
      Obj([id |-> S("a"), type |-> S("MCQ")]),
      Obj([id |-> S("b"), type |-> S("other"),
           data |-> Obj([content |-> S("why?")])]),
      Obj([id |-> S("c"), type |-> S("FIB"),
           data |-> Obj([content |-> S("fill"),
                         style |-> Obj([options_layout |-> S("grid")])])]) }
    \cup { Obj([id |-> S("t"), type |-> S("TABLE"), data |-> Obj([content |-> S("tick")] @@ t)]) :
              t \in { NoFields, [table |-> Obj([rows |-> Arr(<<>>)])],
                      [table |-> Obj([rows |-> Arr(<<Obj([text |-> S("r1")])>>),
                                      header |-> Arr(<<Obj([text |-> S("B")]), S("A")>>)])],
                      [rows |-> Arr(<<Obj([text |-> S("r1")])>>),
                       columns |-> Arr(<<S("A"), S("B")>>)] } }

NestedSubs ==
    { Obj([id |-> S("n"), type |-> S("COMPOSITE"),
           data |-> Obj([common_content |-> S("inner"),
                         sub_questions |-> Arr(<<sq>>)])]) :
          sq \in { Obj([id |-> S("a"), type |-> S("MCQ"),
                        data |-> Obj([content |-> S("deep")])]),
                   Obj([id |-> S("t"), type |-> S("TABLE"),
                        data |-> Obj([content |-> S("deep"),
                                      table |-> Obj([rows |-> Arr(<<>>)])])]) } }

CompositeData ==
    { [common_content |-> S("Read the passage")] @@ q :
         q \in { [sub_questions |-> Arr(l)] :
                    l \in SeqsUpTo(LeafSubs \cup NestedSubs, MaxSubs) } }
    \cup { [common_content |-> S("Read the passage")] @@ s @@ q :
              s \in StyleInputs,
              q \in { NoFields, [sub_questions |-> S("none")],
                      [sub_questions |-> Arr(<<Obj([id |-> S("a"), type |-> S("MCQ"),
                                                    data |-> Obj([content |-> S("deep")])])>>)] } }

DataInputs(type) ==
    CASE type = S("TABLE") -> { Obj(d) : d \in TableData }
      [] type = S("COMPOSITE") -> { Obj(d) : d \in CompositeData }
      [] OTHER -> { Obj(d @@ s) : d \in PlainData(type), s \in StyleInputs } \cup { S("text") }

RestInputs ==
    { [id |-> S("q2"), solution |-> S("because"),
       metadata |-> Obj([chapter |-> Num(0), marks |-> Num(0), subject |-> Empty])],
      [solution |-> Obj([text |-> S("see above")]), metadata |-> S("meta")] }

\* Canonical generation: a data field and one of the six type tags
CanonicalInputs ==
    UNION { { Obj([id |-> S("q1"), type |-> type, data |-> d]) : d \in DataInputs(type) } :
              type \in QUESTION_TYPES }
    \cup { Obj([type |-> type, data |-> d] @@ r) :
              type \in QUESTION_TYPES, d \in DataInputs(S("MCQ")) \cup DataInputs(S("SUBJECTIVE")),
              r \in RestInputs }

\* Oldest flat generation: the fields of the question lie at the top level
FlatTypes ==
    { NoFields, [type |-> Num(5)] }
    \cup { [type |-> S(w)] : w \in { "mcq", "multi_select", "fib", "match", "composite",
                                      "long_answer", "Long_Answer", "TABLE",
                                      "unknown_garbage", "constructor" } }

AssetInputs ==
    { Arr(<<Obj([asset_id |-> S("img1")]), Obj([asset_id |-> S("#")])>>),
      Arr(<<Obj([filename |-> Str(<<"fig2", ".", "png">>)]), Obj([tag |-> S("t3")])>>),
      S("img1.png") }

PromptInputs ==
    { NoFields, [prompt |-> S("2+2?")] }
    \cup { [prompt |-> Obj([text |-> S("Look")] @@ a)] :
              a \in {NoFields} \cup { [assets |-> x] : x \in AssetInputs } }

StimulusInputs ==
    { NoFields,
      [stimulus |-> S("A passage")],
      [stimulus |-> Obj([text |-> S("A passage"), media |-> Arr(<<Obj([id |-> S("m1")])>>),
                         word_bank |-> Arr(<<S("am"), Obj([text |-> S("was")])>>),
                         pairs |-> Obj([left_column |-> Arr(<<Obj([text |-> S("1")]),
                                                              Obj([text |-> S("2")]),
                                                              Obj([text |-> S("3")])>>),
                                        right_column |-> Arr(<<Obj([text |-> S("one")]),
                                                               Obj([text |-> S("two")])>>)])])],
      [stimulus |-> Obj([word_bank |-> S("am, was")])] }

OptionInputs ==
    { NoFields,
      [options |-> Arr(<<S("3"), S("4")>>)],
      [options |-> Arr(<<Obj([opt_id |-> S("x"), text |-> S("three"),
                              asset |-> Obj([asset_id |-> S("o1")])]),
                         Obj([text |-> Num(4)])>>)],
      [options |-> S("3,4")],
      [options |-> Arr(<<Null>>)] }

OldSubInputs ==
    { NoFields,
      [subquestions |-> Arr(<<Obj([sub_id |-> S("i"), type |-> S("mcq"),
                                   prompt |-> S("pick"), options |-> Arr(<<S("a")>>)]),
                              Obj([type |-> S("composite"), prompt |-> S("inner"),
                                   subquestions |-> Arr(<<Obj([type |-> S("mcq")])>>)]),
                              Obj([prompt |-> S("why")])>>)],
      [subquestions |-> Arr(<<Obj([type |-> S("constructor"), prompt |-> S("odd")])>>)] }

FlatInputs ==
    { Obj([question_id |-> S("q1")] @@ t @@ p @@ s @@ o @@ q) :
         t \in FlatTypes, p \in PromptInputs, s \in StimulusInputs, o \in OptionInputs,
         q \in OldSubInputs }
    \cup { Obj([type |-> S("unknown_garbage"), data |-> Obj([content |-> S("kept?")])]) }
    \cup { Obj([points |-> S("2"), explanation |-> S("sum")] @@ t) : t \in FlatTypes }

\* Mid generation: taxonomy and content sub-objects
NestedInputs ==
    { Obj([id |-> S("q7"),
           taxonomy |-> Obj(t @@ [difficulty |-> S("hard"), unit_id |-> Num(0)]),
           grading |-> Obj([points |-> Num(2), explanation |-> S("sum")]),
           content |-> Obj(p @@ s @@ o)]) :
         t \in FlatTypes, p \in PromptInputs, s \in StimulusInputs, o \in OptionInputs }

NormalizerInputs == CanonicalInputs \cup FlatInputs \cup NestedInputs

-----------------------------------------------------------------------------
(* The normalizer as a state machine: one call, then a call on its result *)

\* The bulk parser has not been called
ParserIdle ==
    /\ jsonText = <<>> /\ cursor = 0 /\ buffer = <<>> /\ braceCount = 0
    /\ inString = FALSE /\ escape = FALSE /\ results = <<>> /\ parsePc = "idle"

\* No image utility has been called
ImagesIdle ==
    /\ heap = <<>> /\ subject = Undefined /\ snapshot = Undefined /\ store = <<>>
    /\ resolved = Undefined /\ visits = <<>> /\ tags = {} /\ callPc = "idle"

\* formatRichText has not been called
RendererIdle ==
    /\ richText = <<>> /\ imageResolver = <<>> /\ html = <<>>
    /\ imagePlaceholders = <<>> /\ gapPlaceholders = <<>> /\ renderPc = "idle"

\* The assessment builder is not open
BuilderIdle ==
    /\ currentSection = "" /\ questions = <<>> /\ sectionConfig = <<>> /\ toggleSkip = FALSE
    /\ totalMarks = 0 /\ sectionMarks = 0 /\ builderPc = "idle"

InitNormalize ==
    /\ raw \in NormalizerInputs
    /\ first = Undefined
    /\ second = Undefined
    /\ stage = "input"
    /\ report = Undefined
    /\ ParserIdle
    /\ ImagesIdle
    /\ RendererIdle
    /\ BuilderIdle

Normalize ==
    /\ stage = "input"
    /\ \E gid \in GenIds : first' = normalizeToV40Schema(raw, gid)
    /\ stage' = "normalized"
    /\ UNCHANGED <<raw, second, report, parserVars, imageVars, rendererVars, builderVars>>

Renormalize ==
    /\ stage = "normalized"
    /\ first # Throw
    /\ \E gid \in GenIds : second' = normalizeToV40Schema(first, gid)
    /\ stage' = "renormalized"
    /\ UNCHANGED <<raw, first, report, parserVars, imageVars, rendererVars, builderVars>>

NextNormalize == Normalize \/ Renormalize

SpecNormalize == InitNormalize /\ [][NextNormalize]_vars

-----------------------------------------------------------------------------
(* Properties of the normalizer *)

\* The first call has returned a question
Returned == stage # "input" /\ first # Throw

\* A canonical question: it has data, one of the six type tags and an id
Canonical(q) ==
    Truthy(Get(q, "data")) /\ Get(q, "type") \in QUESTION_TYPES /\ Truthy(Get(q, "id"))

\* data.table.rows is a non-empty array of arrays
GridRows(data) ==
    /\ IsArr(Get(Get(data, "table"), "rows"))
    /\ Len(Get(Get(data, "table"), "rows").a) > 0
    /\ \A i \in 1..Len(Get(Get(data, "table"), "rows").a) :
          IsArr(Get(Get(data, "table"), "rows").a[i])

\* Every sub-question below data, at every depth, has one of the six type tags and a data
\* object with a style, and a grid of rows when it is a TABLE
RECURSIVE SubQuestionsValid(_)
SubQuestionsValid(data) ==
    IsArr(Get(data, "sub_questions")) =>
        \A i \in 1..Len(Get(data, "sub_questions").a) :
            /\ Get(Get(data, "sub_questions").a[i], "type") \in QUESTION_TYPES
            /\ IsObj(Get(Get(data, "sub_questions").a[i], "data"))
            /\ ~Nullish(StyleOf(Get(data, "sub_questions").a[i]))
            /\ (Get(Get(data, "sub_questions").a[i], "type") = S("TABLE")
                  => GridRows(Get(Get(data, "sub_questions").a[i], "data")))
            /\ SubQuestionsValid(Get(Get(data, "sub_questions").a[i], "data"))

\* Every TABLE sub-question directly below data has a grid of rows
SubTablesGrid(data) ==
    IsArr(Get(data, "sub_questions")) =>
        \A i \in 1..Len(Get(data, "sub_questions").a) :
            (Get(Get(data, "sub_questions").a[i], "type") = S("TABLE")
               => GridRows(Get(Get(data, "sub_questions").a[i], "data")))

\* data of the shape a SUBJECTIVE question has
SubjectiveShaped(data) ==
    /\ IsStr(Get(data, "content"))
    /\ Truthy(Get(Get(data, "style"), "image_layout"))
    /\ Get(data, "expected_length") = S("short")

\* The input names no type, or one that no generation knows
UnrecognisedType(q) ==
    \/ ~Has(q, "type") /\ ~Has(q, "taxonomy")
    \/ Get(q, "type") \in {S("unknown_garbage"), S("constructor")}

\* C1: normalizeToV40Schema returns a question and never raises, whatever the object it is
\* given: fields that are missing or of the wrong type only fall back to defaults.
C1_NeverRaises == stage # "input" => first # Throw

\* C1: the call on the flat question { question_id: 'q1', type: 5 } has raised.
C1_RaisedOnNumberType ==
    /\ stage = "normalized"
    /\ raw = Obj([question_id |-> S("q1"), type |-> Num(5)])
    /\ first = Throw

C4_StylePresent == Returned => ~Nullish(StyleOf(first))

\* C4: the canonical question { id: 'q1', type: 'SUBJECTIVE', data: 'text' } came back with
\* its data still the string, which has no style.
C4_StringDataKeptNoStyle ==
    /\ stage = "normalized"
    /\ raw = Obj([id |-> S("q1"), type |-> S("SUBJECTIVE"), data |-> S("text")])
    /\ Returned
    /\ Get(first, "data") = S("text")
    /\ StyleOf(first) = Undefined

\* C5: the question returned has one of the six type tags, and an input whose type is
\* missing or not recognised comes back as SUBJECTIVE with data of the SUBJECTIVE shape.
C5_TypeAmongSix ==
    Returned =>
        /\ Get(first, "type") \in QUESTION_TYPES
        /\ (UnrecognisedType(raw) =>
                Get(first, "type") = S("SUBJECTIVE") /\ SubjectiveShaped(Get(first, "data")))

\* C5: the flat question whose type is 'constructor' came back with a function as its type
\* and data that has no style.
C5_ConstructorTypeIsFunction ==
    /\ stage = "normalized"
    /\ raw = Obj([question_id |-> S("q1"), type |-> S("constructor")])
    /\ Returned
    /\ Get(first, "type") = Fun("Object")
    /\ ~Has(Get(first, "data"), "style")

\* C6: in the question returned, every sub-question at every depth has one of the six type
\* tags and a data object with a style, and a grid of rows when it is a TABLE.
C6_SubQuestionsValid == Returned => SubQuestionsValid(Get(first, "data"))

\* C6: a canonical COMPOSITE whose only sub-question has no data came back with that
\* sub-question still without data.
C6_SubQuestionStillWithoutData ==
    /\ stage = "normalized"
    /\ raw = Obj([id |-> S("q1"), type |-> S("COMPOSITE"),
                  data |-> Obj([common_content |-> S("Read the passage"),
                                sub_questions |->
                                    Arr(<<Obj([id |-> S("a"), type |-> S("MCQ")])>>)])])
    /\ Returned
    /\ Get(Get(first, "data"), "sub_questions").a[1] = Obj([id |-> S("a"), type |-> S("MCQ")])

\* C7: a TABLE question that the normalizer returns, and each of its TABLE sub-questions,
\* has in data.table.rows a non-empty array of arrays.
C7_TableRowsGrid ==
    Returned =>
        /\ (Get(first, "type") = S("TABLE") => GridRows(Get(first, "data")))
        /\ SubTablesGrid(Get(first, "data"))

\* C7: a canonical TABLE question whose table has an empty rows array came back with the
\* rows still empty.
C7_EmptyRowsKept ==
    /\ stage = "normalized"
    /\ raw = Obj([id |-> S("q1"), type |-> S("TABLE"),
                  data |-> Obj([content |-> S("Tick the columns"),
                                table |-> Obj([rows |-> Arr(<<>>)])])])
    /\ Returned
    /\ Get(Get(Get(first, "data"), "table"), "rows") = Arr(<<>>)

-----------------------------------------------------------------------------
(* JSON.parse on the symbols of a text.  A number is one digit and a key one symbol in  *)
(* every text the model parses; a string escapes nothing but quotes and backslashes.   *)

JsonSpace == {" ", "\n"}
RECURSIVE SkipSpace(_)
SkipSpace(s) == IF s # <<>> /\ Head(s) \in JsonSpace THEN SkipSpace(Tail(s)) ELSE s

\* The outcome of parsing a prefix: the value and the symbols left, or a syntax error
SyntaxError == [ok |-> FALSE]
Parsed(v, rest) == [ok |-> TRUE, v |-> v, rest |-> rest]
AndThen(r, K(_)) == IF r.ok THEN K(r) ELSE SyntaxError

RECURSIVE ParseStringBody(_, _)
RECURSIVE ParseValue(_)
RECURSIVE ParseMembers(_, _)
RECURSIVE ParseElements(_, _)

\* The symbols after an opening quote, up to the closing one
ParseStringBody(s, acc) ==
    IF s = <<>> \/ Head(s) = "\n" THEN SyntaxError
    ELSE IF Head(s) = "\"" THEN Parsed(Str(acc), Tail(s))
    ELSE IF Head(s) = "\\"
         THEN (IF Len(s) >= 2 /\ s[2] \in {"\"", "\\"}
               THEN ParseStringBody(SubSeq(s, 3, Len(s)), Append(acc, s[2]))
               ELSE SyntaxError)
    ELSE ParseStringBody(Tail(s), Append(acc, Head(s)))

AfterMember(s, fields) ==
    IF s = <<>> THEN SyntaxError
    ELSE IF Head(s) = "}" THEN Parsed(Obj(fields), Tail(s))
    ELSE IF Head(s) = "," THEN ParseMembers(SkipSpace(Tail(s)), fields)
    ELSE SyntaxError

AfterKey(key, s, fields) ==
    IF s = <<>> \/ Head(s) # ":" \/ Len(key.s) # 1 THEN SyntaxError
    ELSE AndThen(ParseValue(Tail(s)),
                 LAMBDA r : AfterMember(SkipSpace(r.rest), (key.s[1] :> r.v) @@ fields))

\* "key": value pairs; a later pair of the same key replaces the earlier one
ParseMembers(s, fields) ==
    IF s = <<>> \/ Head(s) # "\"" THEN SyntaxError
    ELSE AndThen(ParseStringBody(Tail(s), <<>>),
                 LAMBDA k : AfterKey(k.v, SkipSpace(k.rest), fields))

AfterElement(s, acc) ==
    IF s = <<>> THEN SyntaxError
    ELSE IF Head(s) = "]" THEN Parsed(Arr(acc), Tail(s))
    ELSE IF Head(s) = "," THEN ParseElements(Tail(s), acc)
    ELSE SyntaxError

ParseElements(s, acc) ==
    AndThen(ParseValue(s), LAMBDA r : AfterElement(SkipSpace(r.rest), Append(acc, r.v)))

ParseToken(s) ==
    IF s = <<>> THEN SyntaxError
    ELSE CASE Head(s) = "{" ->
                IF SkipSpace(Tail(s)) # <<>> /\ Head(SkipSpace(Tail(s))) = "}"
                THEN Parsed(Obj(NoFields), Tail(SkipSpace(Tail(s))))
                ELSE ParseMembers(SkipSpace(Tail(s)), NoFields)
           [] Head(s) = "[" ->
                IF SkipSpace(Tail(s)) # <<>> /\ Head(SkipSpace(Tail(s))) = "]"
                THEN Parsed(Arr(<<>>), Tail(SkipSpace(Tail(s))))
                ELSE ParseElements(Tail(s), <<>>)
           [] Head(s) = "\"" -> ParseStringBody(Tail(s), <<>>)
           [] NumeralValue(Head(s)) >= 0 -> Parsed(Num(NumeralValue(Head(s))), Tail(s))
           [] Head(s) = "true" -> Parsed(Bool(TRUE), Tail(s))
           [] Head(s) = "false" -> Parsed(Bool(FALSE), Tail(s))
           [] Head(s) = "null" -> Parsed(Null, Tail(s))
           [] OTHER -> SyntaxError

ParseValue(s) == ParseToken(SkipSpace(s))

\* The text is one value and white space, or the parse throws
WholeText(r) == IF r.ok /\ SkipSpace(r.rest) = <<>> THEN r.v ELSE Throw
JSONparse(text) == WholeText(ParseValue(text))

-----------------------------------------------------------------------------
(* The bulk parser *)

\* content after the byte order mark is removed and content.trim()
StripBOM(content) == IF content # <<>> /\ Head(content) = BOM THEN Tail(content) ELSE content
Prepared(content) == TrimRight(TrimLeft(StripBOM(content)))

StartsWith(content, c) == content # <<>> /\ Head(content) = c
\* content.includes('\n{')
IncludesNewlineBrace(content) ==
    \E k \in 1..(Len(content) - 1) : content[k] = "\n" /\ content[k + 1] = "{"

\* An attempt either returns the list of results or leaves what it pushed and falls through
Returns(list)      == [returned |-> TRUE, results |-> list]
FallsThrough(list) == [returned |-> FALSE, results |-> list]

\* parsed.forEach(...): the elements that are objects are normalized and pushed in turn;
\* an exception of the normalizer ends the loop with the earlier pushes made
RECURSIVE PushAll(_, _, _)
PushOne(normalized, elems, gids, pushed) ==
    IF normalized = Throw THEN FallsThrough(pushed)
    ELSE PushAll(Tail(elems), Tail(gids), Append(pushed, normalized))
PushAll(elems, gids, pushed) ==
    IF elems = <<>> THEN Returns(pushed)
    ELSE IF ~(Truthy(Head(elems)) /\ TypeofObject(Head(elems)))
    THEN PushAll(Tail(elems), Tail(gids), pushed)
    ELSE PushOne(normalizeToV40Schema(Head(elems), Head(gids)), elems, gids, pushed)

\* Lines 94-109: the text as a JSON array
ArrayOf(parsed, gids) ==
    IF IsArr(parsed) THEN PushAll(parsed.a, gids, <<>>) ELSE FallsThrough(<<>>)
ArrayAttempt(content, gids) ==
    IF StartsWith(content, "[") THEN ArrayOf(JSONparse(content), gids)
    ELSE FallsThrough(<<>>)

\* Lines 112-121: the text as one JSON object
SingleOf(normalized, pushed) ==
    IF normalized = Throw THEN FallsThrough(pushed)
    ELSE Returns(Append(pushed, normalized))
SingleAttempt(content, gid, pushed) ==
    IF StartsWith(content, "{") /\ ~IncludesNewlineBrace(content)
    THEN SingleOf(Try(JSONparse(content), LAMBDA obj : normalizeToV40Schema(obj, gid)), pushed)
    ELSE FallsThrough(pushed)

\* Both attempts in turn
Attempts(array, content, gid) ==
    IF array.returned THEN array ELSE SingleAttempt(content, gid, array.results)

\* Lines 137-146: the buffer closed an object; push its normalization unless that throws
PushParsed(normalized, pushed) ==
    IF normalized = Throw THEN pushed ELSE Append(pushed, normalized)
CloseObject(text, gid, pushed) ==
    PushParsed(Try(JSONparse(TrimRight(TrimLeft(text))),
                   LAMBDA obj : normalizeToV40Schema(obj, gid)),
               pushed)

\* Lines 88-121: the text is prepared and the two attempts are made
StartOutcome(attempt) ==
    /\ results' = attempt.results
    /\ parsePc' = IF attempt.returned THEN "done" ELSE "scan"

\* One turn of a scan without lines 132-135: every brace counts, quoted or not
ConsumeUnquoted(char, gid) ==
    IF char = "{"
    THEN braceCount' = braceCount + 1 /\ buffer' = Append(buffer, char)
         /\ UNCHANGED <<inString, escape, results>>
    ELSE IF char = "}"
    THEN /\ braceCount' = braceCount - 1
         /\ IF braceCount - 1 = 0
            THEN results' = CloseObject(Append(buffer, char), gid, results) /\ buffer' = <<>>
            ELSE buffer' = Append(buffer, char) /\ UNCHANGED results
         /\ UNCHANGED <<inString, escape>>
    ELSE buffer' = Append(buffer, char) /\ UNCHANGED <<braceCount, inString, escape, results>>

\* Lines 130-150: one turn of the scan loop on the symbol char
Consume(char, gid) ==
    IF escape
    THEN escape' = FALSE /\ buffer' = Append(buffer, char)
         /\ UNCHANGED <<braceCount, inString, results>>
    ELSE IF char = "\\"
    THEN escape' = TRUE /\ buffer' = Append(buffer, char)
         /\ UNCHANGED <<braceCount, inString, results>>
    ELSE IF char = "\""
    THEN inString' = ~inString /\ buffer' = Append(buffer, char)
         /\ UNCHANGED <<braceCount, escape, results>>
    ELSE IF ~inString /\ char = "{"
    THEN braceCount' = braceCount + 1 /\ buffer' = Append(buffer, char)
         /\ UNCHANGED <<inString, escape, results>>
    ELSE IF ~inString /\ char = "}"
    THEN /\ braceCount' = braceCount - 1
         /\ IF braceCount - 1 = 0
            THEN results' = CloseObject(Append(buffer, char), gid, results) /\ buffer' = <<>>
            ELSE buffer' = Append(buffer, char) /\ UNCHANGED results
         /\ UNCHANGED <<inString, escape>>
    ELSE buffer' = Append(buffer, char) /\ UNCHANGED <<braceCount, inString, escape, results>>

-----------------------------------------------------------------------------
(* The texts handed to the bulk parser *)

MaxElems == 2     \* elements of an input array

Quoted(w) == <<"\"", w, "\"">>
Pair(k, v) == Quoted(k) \o <<":">> \o v
Separated(parts, sep) ==
    Flatten([k \in 1..Len(parts) |-> IF k = 1 THEN parts[k] ELSE sep \o parts[k]])
ObjectText(pairs) == <<"{">> \o Separated(pairs, <<",">>) \o <<"}">>
ArrayText(elems)  == <<"[">> \o Separated(elems, <<",">>) \o <<"]">>

\* {"id":"a","type":"MCQ","data":{"content":"2+2?"}}
DocCanonical ==
    ObjectText(<<Pair("id", Quoted("a")), Pair("type", Quoted("MCQ")),
                 Pair("data", ObjectText(<<Pair("content", Quoted("2+2?"))>>))>>)
\* {"question_id":"b","type":"mcq","prompt":"why {not}?"}
DocFlat ==
    ObjectText(<<Pair("question_id", Quoted("b")), Pair("type", Quoted("mcq")),
                 Pair("prompt", <<"\"", "why ", "{", "not", "}", "?", "\"">>)>>)
\* {"id":"c","prompt":"say \"hi\" \\"}
DocEscaped ==
    ObjectText(<<Pair("id", Quoted("c")),
                 Pair("prompt", <<"\"", "say ", "\\", "\"", "hi", "\\", "\"", " ", "\\", "\\",
                                  "\"">>)>>)
\* {"id":"d","prompt":"a } \" { b"}: lone braces in a string, around an escaped quote
DocBraces ==
    ObjectText(<<Pair("id", Quoted("d")),
                 Pair("prompt", <<"\"", "a ", "}", " ", "\\", "\"", " ", "{", " b", "\"">>)>>)
\* {"id":"n","type":5}: well-formed, and the normalizer throws on it
DocNumberType == ObjectText(<<Pair("id", Quoted("n")), Pair("type", <<"5">>)>>)
\* {"id":"t",}
DocTrailingComma == <<"{">> \o Pair("id", Quoted("t")) \o <<",", "}">>

GoodDocs == {DocCanonical, DocFlat, DocEscaped}
\* The objects whose strings hold braces, quotes or backslashes, and a plain one
ScanDocs == GoodDocs \cup {DocBraces}

\* A truncated object is a proper prefix of a well-formed one
Truncations(doc) == { SubSeq(doc, 1, k) : k \in 1..(Len(doc) - 1) }
BadDocs == Truncations(DocCanonical) \cup {DocTrailingComma}

Separators == {<<>>, <<"\n">>}

\* Three objects, the second one truncated or invalid
ThreeDocs(a, b, c, sep) == a \o sep \o b \o sep \o c
BrokenBatches ==
    { ThreeDocs(a, b, c, sep) : a \in GoodDocs, b \in BadDocs, c \in GoodDocs,
                                sep \in Separators }

\* A closing brace that closes nothing, before an object or between two
StrayBraces ==
    { <<"}">> \o DocFlat, DocCanonical \o <<"}", "\n">> \o DocFlat }

ParserInputs ==
    BrokenBatches
    \cup GoodDocs \cup {DocNumberType, DocTrailingComma, <<>>}
    \cup { <<BOM>> \o d \o <<"\n">> : d \in GoodDocs }
    \cup { Separated(l, sep) : l \in SeqsUpTo(GoodDocs \cup {DocNumberType}, MaxElems),
                               sep \in Separators }
    \cup { Separated(l, sep) : l \in SeqsUpTo(ScanDocs, MaxElems), sep \in Separators }
    \cup StrayBraces
    \cup { ArrayText(l) : l \in SeqsUpTo(GoodDocs \cup {DocNumberType, <<"null">>}, MaxElems) }

-----------------------------------------------------------------------------
(* The bulk parser as a state machine: the attempts, then the scan symbol by symbol *)

NormalizerIdle ==
    /\ raw = Undefined /\ first = Undefined /\ second = Undefined /\ stage = "idle"
    /\ report = Undefined

InitParse ==
    /\ jsonText \in ParserInputs
    /\ cursor = 0 /\ buffer = <<>> /\ braceCount = 0
    /\ inString = FALSE /\ escape = FALSE /\ results = <<>>
    /\ parsePc = "start"
    /\ NormalizerIdle
    /\ ImagesIdle
    /\ RendererIdle
    /\ BuilderIdle

ParseStart ==
    /\ parsePc = "start"
    /\ \E gids \in [1..MaxElems -> GenIds] :
          StartOutcome(Attempts(ArrayAttempt(Prepared(jsonText), gids),
                                Prepared(jsonText), gids[1]))
    /\ UNCHANGED <<normalizerVars, imageVars, rendererVars, builderVars, jsonText, cursor, buffer, braceCount, inString,
                   escape>>

ScanChar ==
    /\ parsePc = "scan"
    /\ cursor < Len(Prepared(jsonText))
    /\ cursor' = cursor + 1
    /\ \E gid \in GenIds : Consume(Prepared(jsonText)[cursor + 1], gid)
    /\ UNCHANGED <<normalizerVars, imageVars, rendererVars, builderVars, jsonText, parsePc>>

ScanEnd ==
    /\ parsePc = "scan"
    /\ cursor = Len(Prepared(jsonText))
    /\ parsePc' = "done"
    /\ UNCHANGED <<normalizerVars, imageVars, rendererVars, builderVars, jsonText, cursor, buffer, braceCount, inString,
                   escape, results>>

NextParse == ParseStart \/ ScanChar \/ ScanEnd

SpecParse == InitParse /\ [][NextParse]_vars

-----------------------------------------------------------------------------
(* Properties of the bulk parser *)

\* The normalization of the object a well-formed text denotes
QuestionOf(doc, gid) == normalizeToV40Schema(JSONparse(doc), gid)

\* C2: for a text of three objects, concatenated or on a line each, whose first and third
\* are well-formed and whose second is truncated or invalid, parseMixedJson returns exactly
\* two questions: the normalization of the first and of the third, in that order.
C2_SecondOfThreeSkipped ==
    parsePc = "done" =>
        \A a \in GoodDocs, b \in BadDocs, c \in GoodDocs, sep \in Separators :
            jsonText = ThreeDocs(a, b, c, sep) =>
                \E g1 \in GenIds, g3 \in GenIds :
                    results = <<QuestionOf(a, g1), QuestionOf(c, g3)>>

\* C2: the scan of three objects on a line each, the second cut off inside its data object,
\* has ended with one question, the first, and the depth still 2.
C2_ThirdLostAfterTruncation ==
    /\ parsePc = "done"
    /\ jsonText = ThreeDocs(DocCanonical, SubSeq(DocCanonical, 1, Len(DocCanonical) - 2),
                            DocFlat, <<"\n">>)
    /\ \E g \in GenIds : results = <<QuestionOf(DocCanonical, g)>>
    /\ braceCount = 2

-----------------------------------------------------------------------------
(* Objects in memory.  An object or an array lives at an address of the heap and a    *)
(* value of the heap is a primitive or a reference; two references to one address are *)
(* the same object, and an assignment to a field is seen through both.                *)

Ref(a) == [t |-> "ref", at |-> a]
IsRef(v) == v.t = "ref"
\* The object or array a value refers to; a primitive stands for itself
Target(h, v) == IF IsRef(v) THEN h[v.at] ELSE v
\* v.k
Field(h, v, k) == Get(Target(h, v), k)
\* Array.isArray(v)
IsArrayAt(h, v) == IsArr(Target(h, v))
\* v.k = x
SetField(h, v, k, x) ==
    IF IsRef(v) /\ IsObj(h[v.at]) THEN [h EXCEPT ![v.at] = Put(@, k, x)] ELSE h

\* A new object or array: the heap with it and the reference to it
Stored(h, v) == [h |-> h, v |-> v]
AllocCell(h, cell) == Stored(Append(h, cell), Ref(Len(h) + 1))

\* The fields of an object in some fixed order, and the values nested in a value
RECURSIVE OrderOf(_)
OrderAfter(keys, k) == <<k>> \o OrderOf(keys \ {k})
OrderOf(keys) == IF keys = {} THEN <<>> ELSE OrderAfter(keys, CHOOSE k \in keys : TRUE)
Nested(tree) ==
    IF IsArr(tree) THEN tree.a
    ELSE IF IsObj(tree) THEN [i \in 1..Len(OrderOf(DOMAIN tree.o)) |-> tree.o[OrderOf(DOMAIN tree.o)[i]]]
    ELSE <<>>

\* The number of objects and arrays in a value, and in the first i - 1 of some values
RECURSIVE CellCount(_)
RECURSIVE CellsBefore(_, _)
CellsBefore(values, i) ==
    IF i = 1 THEN 0 ELSE CellsBefore(values, i - 1) + CellCount(values[i - 1])
CellCount(tree) ==
    IF IsArr(tree) \/ IsObj(tree) THEN CellsBefore(Nested(tree), Len(Nested(tree)) + 1) + 1
    ELSE 0

\* A value with its objects and arrays nested in it is laid out after address base: the
\* nested values one after the other, each before the object or array that holds it
Placed(tree, base) ==
    IF IsArr(tree) \/ IsObj(tree) THEN Ref(base + CellCount(tree)) ELSE tree
PlacedAt(values, i, base) == Placed(values[i], base + CellsBefore(values, i))
IndexOf(order, k) == CHOOSE i \in 1..Len(order) : order[i] = k
RECURSIVE Layout(_, _)
LayoutOf(tree, values, base) ==
    Flatten([i \in 1..Len(values) |-> Layout(values[i], base + CellsBefore(values, i))])
    \o << IF IsArr(tree)
          THEN Arr([i \in 1..Len(values) |-> PlacedAt(values, i, base)])
          ELSE Obj([k \in DOMAIN tree.o |->
                       PlacedAt(values, IndexOf(OrderOf(DOMAIN tree.o), k), base)]) >>
Layout(tree, base) ==
    IF IsArr(tree) \/ IsObj(tree) THEN LayoutOf(tree, Nested(tree), base) ELSE <<>>
Store(h, tree) == Stored(h \o Layout(tree, Len(h)), Placed(tree, Len(h)))

\* The value a heap value denotes, its objects and arrays nested in it
RECURSIVE Load(_, _)
Load(h, v) ==
    IF ~IsRef(v) THEN v
    ELSE IF IsObj(h[v.at])
    THEN Obj([k \in DOMAIN h[v.at].o |-> Load(h, h[v.at].o[k])])
    ELSE Arr([k \in 1..Len(h[v.at].a) |-> Load(h, h[v.at].a[k])])

\* The addresses reachable from a heap value
RECURSIVE Reach(_, _)
Reach(h, v) ==
    IF ~IsRef(v) THEN {}
    ELSE IF IsObj(h[v.at])
    THEN {v.at} \cup UNION { Reach(h, h[v.at].o[k]) : k \in DOMAIN h[v.at].o }
    ELSE {v.at} \cup UNION { Reach(h, h[v.at].a[k]) : k \in 1..Len(h[v.at].a) }

\* What JSON.stringify keeps of a value: a field that is undefined or a function is left
\* out, such an element of an array becomes null, and so does NaN
Unwritten(v) == v.t \in {"undefined", "function"}
RECURSIVE Stringified(_)
Stringified(tree) ==
    IF IsObj(tree)
    THEN Obj([k \in {j \in DOMAIN tree.o : ~Unwritten(tree.o[j])} |-> Stringified(tree.o[k])])
    ELSE IF IsArr(tree)
    THEN Arr([k \in 1..Len(tree.a) |->
                 IF Unwritten(tree.a[k]) THEN Null ELSE Stringified(tree.a[k])])
    ELSE IF tree = NaN THEN Null
    ELSE tree

\* An object with the fields of v, each holding what v's field holds: { ...v }
ShallowCopy(h, v) == AllocCell(h, IF IsObj(Target(h, v)) THEN Target(h, v) ELSE Obj(NoFields))

\* JSON.parse(JSON.stringify(v)): the text of v, read back into new objects
JSONCopy(h, v) == Store(h, Stringified(Load(h, v)))

-----------------------------------------------------------------------------
(* The image token pattern /\[\[([^\]]+)\]\]/g on the symbols of a text *)

\* The first ']' at or after position p, or 0
CloseAfter(s, p) ==
    IF \E q \in p..Len(s) : s[q] = "]"
    THEN CHOOSE q \in p..Len(s) : s[q] = "]" /\ \A r \in p..(q - 1) : s[r] # "]"
    ELSE 0

\* The pattern matches at p: '[[', one or more symbols other than ']', then ']]'
CloseOf(s, p) == CloseAfter(s, p + 2)
MatchAt(s, p) ==
    /\ p + 1 <= Len(s) /\ s[p] = "[" /\ s[p + 1] = "["
    /\ CloseOf(s, p) > p + 2
    /\ CloseOf(s, p) + 1 <= Len(s) /\ s[CloseOf(s, p) + 1] = "]"
\* match[1], the capture, and match[0], the whole token
CaptureAt(s, p) == SubSeq(s, p + 2, CloseOf(s, p) - 1)
TokenAt(s, p)   == SubSeq(s, p, CloseOf(s, p) + 1)

\* The captures of all matches from p on, as regex.exec finds them in a loop
RECURSIVE CapturesFrom(_, _)
CapturesFrom(s, p) ==
    IF p > Len(s) THEN {}
    ELSE IF MatchAt(s, p) THEN {CaptureAt(s, p)} \cup CapturesFrom(s, CloseOf(s, p) + 2)
    ELSE CapturesFrom(s, p + 1)

\* map.get(tag)
MapGet(map, tag) == IF tag \in DOMAIN map THEN map[tag] ELSE Undefined

\* What the replacer of a rewrite mode returns for one token
Replacement(transformer, tag, match) ==
    IF Truthy(MapGet(transformer.map, tag))
       /\ Truthy(Get(MapGet(transformer.map, tag), transformer.field))
    THEN <<"!", "[">> \o tag \o <<"]", "(">>
         \o ToStringJs(Get(MapGet(transformer.map, tag), transformer.field)) \o <<")">>
    ELSE IF transformer.mode = "preview" THEN <<"[", "Missing: ">> \o tag \o <<"]">>
    ELSE match

\* text.replace(IMAGE_TOKEN_REGEX, replacer)
RECURSIVE ReplaceFrom(_, _, _)
ReplaceFrom(s, p, transformer) ==
    IF p > Len(s) THEN <<>>
    ELSE IF MatchAt(s, p)
    THEN Replacement(transformer, CaptureAt(s, p), TokenAt(s, p))
         \o ReplaceFrom(s, CloseOf(s, p) + 2, transformer)
    ELSE <<s[p]>> \o ReplaceFrom(s, p + 1, transformer)

\* The three transformers handed to traverseAllRichText
Extractor       == [mode |-> "extract"]
Previewer(map)  == [mode |-> "preview", map |-> map, field |-> "dataUrl"]
Publisher(map)  == [mode |-> "publish", map |-> map, field |-> "uri"]

\* transformer(text, path); none of the three reads the path.  A rewrite mode calls
\* text.replace, which only a string has
Apply(transformer, text) ==
    IF transformer.mode = "extract" \/ ~Truthy(text) THEN text
    ELSE IF ~IsStr(text) THEN Throw
    ELSE Str(ReplaceFrom(text.s, 1, transformer))

\* The tags the extractor adds on a visit: String(text) of a number or a boolean holds no
\* token
TagsIn(text) == IF IsStr(text) THEN { Str(c) : c \in CapturesFrom(text.s, 1) } ELSE {}

-----------------------------------------------------------------------------
(* traverseAllRichText.  A traversal carries the heap it writes to, the log of the     *)
(* calls of the transformer (path and text, in order) and whether it is still running: *)
(* an error raised by the transformer or by a field read of null ends it.              *)

Traversal(h) == [h |-> h, log |-> <<>>, ok |-> TRUE]
Raise(st) == [st EXCEPT !.ok = FALSE]
Called(path, text) == [path |-> path, text |-> text]

\* `prefix${i}suffix` for the i-th element, counted from 0
ElementPath(prefix, i, suffix) == Str(prefix \o NatToSyms(i - 1) \o <<suffix>>)

\* x.k = transformer(text, path), where out is what the transformer returns
Assigned(st, x, k, path, text, out) ==
    [h   |-> IF out = Throw THEN st.h ELSE SetField(st.h, x, k, out),
     log |-> Append(st.log, Called(path, text)),
     ok  |-> out # Throw]

\* if (x.k !== undefined) x.k = transformer(x.k, path)
Visit(st, transformer, x, k, path) ==
    IF ~st.ok \/ Field(st.h, x, k) = Undefined THEN st
    ELSE Assigned(st, x, k, path, Field(st.h, x, k), Apply(transformer, Field(st.h, x, k)))

\* items.forEach((item, i) => { if (item.text !== undefined) item.text = ... })
RECURSIVE VisitTexts(_, _, _, _, _)
VisitTexts(st, transformer, items, i, prefix) ==
    IF ~st.ok \/ i > Len(st.h[items.at].a) THEN st
    ELSE IF Nullish(st.h[items.at].a[i]) THEN Raise(st)
    ELSE VisitTexts(Visit(st, transformer, st.h[items.at].a[i], "text",
                          ElementPath(prefix, i, "].text")),
                    transformer, items, i + 1, prefix)

\* data.pairs.forEach: left, then right
RECURSIVE VisitEachPair(_, _, _, _)
VisitEachPair(st, transformer, items, i) ==
    IF ~st.ok \/ i > Len(st.h[items.at].a) THEN st
    ELSE IF Nullish(st.h[items.at].a[i]) THEN Raise(st)
    ELSE VisitEachPair(
             Visit(Visit(st, transformer, st.h[items.at].a[i], "left",
                         ElementPath(<<"data.pairs[">>, i, "].left")),
                   transformer, st.h[items.at].a[i], "right",
                   ElementPath(<<"data.pairs[">>, i, "].right")),
             transformer, items, i + 1)

\* items.map((item, i) => transformer(item, path)): the traversal and the elements of
\* the new array
Mapped(st, out) == [st |-> st, out |-> out]
RECURSIVE MapItems(_, _, _, _, _, _)
MapItem(st, transformer, items, i, prefix, acc, out) ==
    MapItems([st EXCEPT !.log = Append(@, Called(ElementPath(prefix, i, "]"), items[i])),
                        !.ok = out # Throw],
             transformer, items, i + 1, prefix, Append(acc, out))
MapItems(st, transformer, items, i, prefix, acc) ==
    IF ~st.ok \/ i > Len(items) THEN Mapped(st, acc)
    ELSE MapItem(st, transformer, items, i, prefix, acc, Apply(transformer, items[i]))

\* x.k = <the new array>, unless the map raised
AssignCell(st, x, k, r) == [st EXCEPT !.h = SetField(r.h, x, k, r.v)]
AssignMapped(r, x, k) ==
    IF r.st.ok THEN AssignCell(r.st, x, k, AllocCell(r.st.h, Arr(r.out))) ELSE r.st

\* data.table.rows.map: a row that is an array is mapped cell by cell, any other row is
\* kept
RECURSIVE MapRows(_, _, _, _, _)
StoredRow(c, st, transformer, rows, i, acc) ==
    MapRows([st EXCEPT !.h = c.h], transformer, rows, i + 1, Append(acc, c.v))
MappedRow(r, transformer, rows, i, acc) ==
    IF ~r.st.ok THEN Mapped(r.st, acc)
    ELSE StoredRow(AllocCell(r.st.h, Arr(r.out)), r.st, transformer, rows, i, acc)
MapRows(st, transformer, rows, i, acc) ==
    IF ~st.ok \/ i > Len(rows) THEN Mapped(st, acc)
    ELSE IF IsArrayAt(st.h, rows[i])
    THEN MappedRow(MapItems(st, transformer, st.h[rows[i].at].a, 1,
                            <<"data.table.rows[">> \o NatToSyms(i - 1) \o <<"][">>, <<>>),
                   transformer, rows, i, acc)
    ELSE MapRows(st, transformer, rows, i + 1, Append(acc, rows[i]))

\* x.k && Array.isArray(x.k)
HasArray(st, x, k) == st.ok /\ IsArrayAt(st.h, Field(st.h, x, k))
ElementsOf(st, x, k) == st.h[Field(st.h, x, k).at].a

VisitContent(st, data, transformer) ==
    Visit(st, transformer, data, "content", S("data.content"))
VisitCommonContent(st, data, transformer) ==
    Visit(st, transformer, data, "common_content", S("data.common_content"))
VisitOptions(st, data, transformer) ==
    IF HasArray(st, data, "options")
    THEN VisitTexts(st, transformer, Field(st.h, data, "options"), 1, <<"data.options[">>)
    ELSE st
VisitOptionsPool(st, data, transformer) ==
    IF HasArray(st, data, "options_pool")
    THEN AssignMapped(MapItems(st, transformer, ElementsOf(st, data, "options_pool"), 1,
                               <<"data.options_pool[">>, <<>>),
                      data, "options_pool")
    ELSE st
VisitPairs(st, data, transformer) ==
    IF HasArray(st, data, "pairs")
    THEN VisitEachPair(st, transformer, Field(st.h, data, "pairs"), 1)
    ELSE st
VisitHeader(st, table, transformer) ==
    IF HasArray(st, table, "header")
    THEN AssignMapped(MapItems(st, transformer, ElementsOf(st, table, "header"), 1,
                               <<"data.table.header[">>, <<>>),
                      table, "header")
    ELSE st
VisitRows(st, table, transformer) ==
    IF HasArray(st, table, "rows")
    THEN AssignMapped(MapRows(st, transformer, ElementsOf(st, table, "rows"), 1, <<>>),
                      table, "rows")
    ELSE st
VisitTable(st, data, transformer) ==
    IF st.ok /\ Truthy(Field(st.h, data, "table"))
    THEN VisitRows(VisitHeader(st, Field(st.h, data, "table"), transformer),
                   Field(st.h, data, "table"), transformer)
    ELSE st
\* The rows and columns of the older table shape, only where there is no data.table
VisitLegacy(st, data, transformer, k, prefix) ==
    IF HasArray(st, data, k) /\ ~Truthy(Field(st.h, data, "table"))
    THEN VisitTexts(st, transformer, Field(st.h, data, k), 1, prefix)
    ELSE st
VisitLegacyRows(st, data, transformer) ==
    VisitLegacy(st, data, transformer, "rows", <<"data.rows[">>)
\* A traversal that passes over the columns of the older table shape
WithoutLegacyColumns(st, data, transformer) == st
VisitLegacyColumns(st, data, transformer) ==
    VisitLegacy(st, data, transformer, "columns", <<"data.columns[">>)
VisitSolution(st, question, transformer) ==
    IF ~st.ok \/ Nullish(Field(st.h, question, "solution")) THEN st
    ELSE Visit(st, transformer, Field(st.h, question, "solution"), "text", S("solution.text"))

\* { type: sub.type, data: sub.data }
SubQuestionView(h, sub) ==
    AllocCell(h, Obj(("type" :> Field(h, sub, "type")) @@ ("data" :> Field(h, sub, "data"))))

RECURSIVE traverseAllRichText(_, _, _)
RECURSIVE VisitSubQuestions(_, _, _, _)
VisitView(view, st, transformer, items, i) ==
    VisitSubQuestions(traverseAllRichText([st EXCEPT !.h = view.h], view.v, transformer),
                      transformer, items, i + 1)
VisitSubQuestions(st, transformer, items, i) ==
    IF ~st.ok \/ i > Len(st.h[items.at].a) THEN st
    ELSE IF Nullish(st.h[items.at].a[i]) THEN Raise(st)
    ELSE VisitView(SubQuestionView(st.h, st.h[items.at].a[i]), st, transformer, items, i)
VisitSubs(st, data, transformer) ==
    IF HasArray(st, data, "sub_questions")
    THEN VisitSubQuestions(st, transformer, Field(st.h, data, "sub_questions"), 1)
    ELSE st
VisitData(st, data, transformer) ==
    VisitSubs(
     VisitLegacyColumns(
      VisitLegacyRows(
       VisitTable(
        VisitPairs(
         VisitOptionsPool(
          VisitOptions(
           VisitCommonContent(
            VisitContent(st, data, transformer),
            data, transformer),
           data, transformer),
          data, transformer),
         data, transformer),
        data, transformer),
       data, transformer),
      data, transformer),
     data, transformer)
traverseAllRichText(st, question, transformer) ==
    IF ~st.ok THEN st
    ELSE IF Nullish(question) THEN Raise(st)
    ELSE IF ~Truthy(Field(st.h, question, "data")) THEN st
    ELSE VisitSolution(VisitData(st, Field(st.h, question, "data"), transformer),
                       question, transformer)

\* The tags extractImageTags has collected when the traversal ends: the transformer
\* scans every text that is not falsy
RECURSIVE TagsOf(_)
TagsOf(log) ==
    IF log = <<>> THEN {}
    ELSE (IF Truthy(Head(log).text) THEN TagsIn(Head(log).text) ELSE {}) \cup TagsOf(Tail(log))

-----------------------------------------------------------------------------
(* The inputs of the image utilities.  A token is written symbol by symbol, so that the *)
(* pattern sees its brackets; what stands between them is split into the prefix, the id *)
(* and the dimensions.                                                                  *)

Dimensions == <<"|height:40|width:60">>
ImageToken(id, dims) == <<"[", "[", "image:", id>> \o dims \o <<"]", "]">>
GapToken == <<"[", "[", "gap", "]", "]">>

RichTexts ==
    { S("Name the shape"),
      Empty,
      Str(<<"See ">> \o ImageToken("a", <<>>)),
      Str(ImageToken("b", Dimensions) \o <<" and ">> \o GapToken),
      Str(<<"I ">> \o GapToken \o <<" here">>),
      Str(ImageToken("c", <<>>) \o <<" beside ">> \o ImageToken("d", Dimensions)) }

\* Questions holding the rich texts t and u
McqQuestion(t, u) ==
    Obj([id |-> S("q1"), type |-> S("MCQ"),
         data |-> Obj([content |-> t,
                       options |-> Arr(<<Obj([id |-> S("a"), text |-> u]),
                                         Obj([id |-> S("b")]), S("c")>>),
                       style |-> Obj([options_layout |-> S("vertical")])]),
         solution |-> Obj([text |-> Str(<<"As in ">> \o ImageToken("e", <<>>))])])
NullOptionQuestion(t, u) ==
    Obj([id |-> S("q2"), type |-> S("MCQ"),
         data |-> Obj([content |-> t,
                       options |-> Arr(<<Obj([text |-> u]), Null, Obj([text |-> t])>>)]),
         solution |-> Obj([text |-> u])])
FibQuestion(t, u) ==
    Obj([id |-> S("q3"), type |-> S("FIB"),
         data |-> Obj([content |-> t, options_pool |-> Arr(<<u, S("was")>>)]),
         solution |-> Null])
MatchQuestion(t, u) ==
    Obj([id |-> S("q4"), type |-> S("MATCH"),
         data |-> Obj([content |-> S("Match"),
                       pairs |-> Arr(<<Obj([left |-> t, right |-> u]),
                                       Obj([right |-> S("two")])>>)])])
TableQuestion(t, u) ==
    Obj([id |-> S("q5"), type |-> S("TABLE"),
         data |-> Obj([content |-> S("Tick"),
                       table |-> Obj([header |-> Arr(<<t, S("B")>>),
                                      rows |-> Arr(<<Arr(<<u, S("x")>>), S("loose"),
                                                     Arr(<<t>>)>>)])]),
         solution |-> Obj([text |-> u])])
LegacyTableQuestion(t, u) ==
    Obj([id |-> S("q6"), type |-> S("TABLE"),
         data |-> Obj([content |-> S("Tick"),
                       rows |-> Arr(<<Obj([text |-> u]), Obj([id |-> S("r2")])>>),
                       columns |-> Arr(<<Obj([text |-> t]), S("B")>>)]),
         solution |-> Obj([text |-> S("All of them")])])
BothTablesQuestion(t, u) ==
    Obj([id |-> S("q7"), type |-> S("TABLE"),
         data |-> Obj([table |-> Obj([header |-> Arr(<<t>>)]),
                       rows |-> Arr(<<Obj([text |-> u])>>),
                       columns |-> Arr(<<Obj([text |-> u])>>)])])
CompositeQuestion(t, u) ==
    Obj([id |-> S("q8"), type |-> S("COMPOSITE"),
         data |-> Obj([common_content |-> t,
                       sub_questions |-> Arr(<<
                           Obj([id |-> S("a"), type |-> S("MCQ"),
                                data |-> Obj([content |-> u,
                                              options |-> Arr(<<Obj([text |-> t])>>)]),
                                solution |-> Obj([text |-> Str(ImageToken("f", <<>>))])]),
                           Obj([id |-> S("b"), type |-> S("COMPOSITE"),
                                data |-> Obj([common_content |-> u,
                                              sub_questions |-> Arr(<<
                                                  Obj([id |-> S("c"), type |-> S("FIB"),
                                                       data |-> Obj([content |-> t])])>>)])])>>)]),
         solution |-> Obj([text |-> u])])
NullSubQuestion(t, u) ==
    Obj([id |-> S("q9"), type |-> S("COMPOSITE"),
         data |-> Obj([sub_questions |-> Arr(<<Obj([data |-> Obj([content |-> t])]), Null,
                                               Obj([data |-> Obj([content |-> u])])>>)])])
NoDataQuestion(t, u) ==
    Obj([id |-> S("q10"), type |-> S("SUBJECTIVE"), solution |-> Obj([text |-> t])])
StringDataQuestion(t, u) ==
    Obj([id |-> S("q11"), type |-> S("SUBJECTIVE"), data |-> S("text"),
         solution |-> Obj([text |-> t])])
NumberTextQuestion(t, u) ==
    Obj([id |-> S("q12"), type |-> S("FIB"),
         data |-> Obj([content |-> t, common_content |-> Undefined,
                       options_pool |-> Arr(<<Num(5), u>>)])])

QuestionInputs ==
    UNION { { McqQuestion(t, u), NullOptionQuestion(t, u), FibQuestion(t, u),
              MatchQuestion(t, u), TableQuestion(t, u), LegacyTableQuestion(t, u),
              BothTablesQuestion(t, u), CompositeQuestion(t, u), NullSubQuestion(t, u),
              NoDataQuestion(t, u), StringDataQuestion(t, u), NumberTextQuestion(t, u) } :
            t \in RichTexts, u \in RichTexts }

\* The image store and the CDN results: Maps from a tag to a record of the image
Uploaded == Obj([dataUrl |-> S("data:image/png;base64,AAAA"), uri |-> S("https://cdn/a.png")])
StoreInputs ==
    { <<>>,
      (<<"image:", "a">> :> Uploaded),
      (<<"a">> :> Uploaded) @@ (<<"b">> :> Uploaded),
      (<<"image:", "a">> :> Obj([dataUrl |-> Empty, uri |-> Null]))
          @@ (<<"image:", "b", "|height:40|width:60">> :> Uploaded) }

-----------------------------------------------------------------------------
(* The image utilities as a state machine: one of them is called on a question of the *)
(* caller, and the call runs to its end.                                              *)

InitTraverse ==
    /\ \E q \in QuestionInputs :
          /\ heap = Store(<<>>, q).h
          /\ subject = Store(<<>>, q).v
          /\ snapshot = q
    /\ store \in StoreInputs
    /\ resolved = Undefined
    /\ visits = <<>>
    /\ tags = {}
    /\ callPc = "ready"
    /\ NormalizerIdle
    /\ ParserIdle
    /\ RendererIdle
    /\ BuilderIdle

\* extractImageTags(question): the traversal runs on the question itself
Extracted(st) ==
    /\ heap' = st.h
    /\ visits' = st.log
    /\ tags' = IF st.ok THEN TagsOf(st.log) ELSE {}
    /\ callPc' = IF st.ok THEN "extracted" ELSE "extract raised"
    /\ UNCHANGED <<subject, snapshot, store, resolved>>

extractImageTags ==
    /\ callPc = "ready"
    /\ Extracted(traverseAllRichText(Traversal(heap), subject, Extractor))
    /\ UNCHANGED <<normalizerVars, parserVars, rendererVars, builderVars>>

\* The end of a rewrite: the copy is returned unless the traversal raised
Rewritten(st, copy, done, raised) ==
    /\ heap' = st.h
    /\ visits' = st.log
    /\ resolved' = IF st.ok THEN copy ELSE Throw
    /\ callPc' = IF st.ok THEN done ELSE raised
    /\ UNCHANGED <<subject, snapshot, store, tags>>

Rewrite(r, transformer, done, raised) ==
    Rewritten(traverseAllRichText(Traversal(r.h), r.v, transformer), r.v, done, raised)

resolveImagesForPreview ==
    /\ callPc = "ready"
    /\ Rewrite(JSONCopy(heap, subject), Previewer(store), "previewed", "preview raised")
    /\ UNCHANGED <<normalizerVars, parserVars, rendererVars, builderVars>>

resolveImagesForPublish ==
    /\ callPc = "ready"
    /\ Rewrite(JSONCopy(heap, subject), Publisher(store), "published", "publish raised")
    /\ UNCHANGED <<normalizerVars, parserVars, rendererVars, builderVars>>

NextTraverse == extractImageTags \/ resolveImagesForPreview \/ resolveImagesForPublish

SpecTraverse == InitTraverse /\ [][NextTraverse]_vars

-----------------------------------------------------------------------------
(* Properties of the image utilities *)

CallReturned == callPc \in {"extracted", "previewed", "published"}
CallRaised   == callPc \in {"extract raised", "preview raised", "publish raised"}
RewriteEnded == callPc \in {"previewed", "published", "preview raised", "publish raised"}

\* The question the traversal has walked, as it was when the call began: the caller's
\* question for the extraction, its JSON copy for a rewrite
Traversed == IF RewriteEnded THEN Stringified(snapshot) ELSE snapshot

ArrOf(v) == IF IsArr(v) THEN v.a ELSE <<>>
IsPrefix(a, b) == Len(a) <= Len(b) /\ SubSeq(b, 1, Len(a)) = a
Paths(log) == [i \in 1..Len(log) |-> log[i].path]

\* The fields of a question that hold rich text, by path and in the order of the
\* traversal; legacy tells whether the rows and columns of the older table shape count
PresentPath(v, k, path) == IF Get(v, k) # Undefined THEN <<Called(path, Get(v, k))>> ELSE <<>>
TextFields(v, prefix) ==
    Flatten([i \in 1..Len(ArrOf(v)) |->
                PresentPath(ArrOf(v)[i], "text", ElementPath(prefix, i, "].text"))])
ItemFields(v, prefix) ==
    [i \in 1..Len(ArrOf(v)) |-> Called(ElementPath(prefix, i, "]"), ArrOf(v)[i])]
PairFields(v) ==
    Flatten([i \in 1..Len(ArrOf(v)) |->
                PresentPath(ArrOf(v)[i], "left", ElementPath(<<"data.pairs[">>, i, "].left"))
                \o PresentPath(ArrOf(v)[i], "right",
                               ElementPath(<<"data.pairs[">>, i, "].right"))])
RowFields(v) ==
    Flatten([i \in 1..Len(ArrOf(v)) |->
                ItemFields(ArrOf(v)[i], <<"data.table.rows[">> \o NatToSyms(i - 1) \o <<"][">>)])
TableFields(table) ==
    IF Truthy(table)
    THEN ItemFields(Get(table, "header"), <<"data.table.header[">>) \o RowFields(Get(table, "rows"))
    ELSE <<>>
LegacyFields(data) ==
    IF Truthy(Get(data, "table")) THEN <<>>
    ELSE TextFields(Get(data, "rows"), <<"data.rows[">>)
         \o TextFields(Get(data, "columns"), <<"data.columns[">>)
RECURSIVE DataFields(_, _)
DataFields(data, legacy) ==
    IF ~Truthy(data) THEN <<>>
    ELSE PresentPath(data, "content", S("data.content"))
         \o PresentPath(data, "common_content", S("data.common_content"))
         \o TextFields(Get(data, "options"), <<"data.options[">>)
         \o ItemFields(Get(data, "options_pool"), <<"data.options_pool[">>)
         \o PairFields(Get(data, "pairs"))
         \o TableFields(Get(data, "table"))
         \o (IF legacy THEN LegacyFields(data) ELSE <<>>)
         \o Flatten([i \in 1..Len(ArrOf(Get(data, "sub_questions"))) |->
                        DataFields(Get(ArrOf(Get(data, "sub_questions"))[i], "data"), legacy)])
SolutionField(q) == PresentPath(Get(q, "solution"), "text", S("solution.text"))
\* The fields as the traversal contract lists them
ListedFields(q) == DataFields(Get(q, "data"), FALSE) \o SolutionField(q)
\* The listed fields and the legacy ones, of a question that has data
RichTextFields(q) ==
    IF Truthy(Get(q, "data")) THEN DataFields(Get(q, "data"), TRUE) \o SolutionField(q)
    ELSE <<>>

\* A well-formed image token starts at position p of the symbols s: '[[image:', the id,
\* the dimensions or nothing, ']]'
ImageTokenAt(s, p) ==
    /\ p + 5 <= Len(s)
    /\ s[p] = "[" /\ s[p + 1] = "[" /\ s[p + 2] = "image:"
    /\ \/ s[p + 4] = "]" /\ s[p + 5] = "]"
       \/ p + 6 <= Len(s) /\ <<s[p + 4]>> = Dimensions /\ s[p + 5] = "]" /\ s[p + 6] = "]"
ImageTokens(text) ==
    IF IsStr(text) THEN { p \in 1..Len(text.s) : ImageTokenAt(text.s, p) } ELSE {}
ImageIdsIn(text) == { S(text.s[p + 3]) : p \in ImageTokens(text) }
\* The ids of the image tokens in the rich text fields of a question, and their number
ImageIds(q) == UNION { ImageIdsIn(RichTextFields(q)[i].text) : i \in DOMAIN RichTextFields(q) }
RECURSIVE TokenCount(_)
TokenCount(fields) ==
    IF fields = <<>> THEN 0
    ELSE Cardinality(ImageTokens(Head(fields).text)) + TokenCount(Tail(fields))
DistinctIds(q) == TokenCount(RichTextFields(q)) = Cardinality(ImageIds(q))

\* C8: When the image tokens in the rich text fields of a question are well formed and
\* have distinct ids, extractImageTags returns exactly the set of their ids, without the
\* 'image:' prefix, without the dimensions and without an entry for a gap token; the
\* empty set when there is no image token.
C8_ExtractsExactlyTheIds ==
    callPc = "extracted" /\ DistinctIds(snapshot) => tags = ImageIds(snapshot)

\* The extraction has returned the tag with its prefix for a question whose only image
\* token is [[image:a]]
C8_TagKeepsPrefix ==
    /\ callPc = "extracted"
    /\ DistinctIds(snapshot)
    /\ ImageIds(snapshot) = {S("a")}
    /\ tags = {Str(<<"image:", "a">>)}

\* C9 as stated: on a question with data, the transformer is called on exactly the
\* listed fields (content, common_content, option texts, pooled options, pairs, table
\* header and rows, sub-questions depth-first, top-level solution.text), in that order.
C9_ListedFieldsOnly ==
    CallReturned /\ Truthy(Get(Traversed, "data")) => Paths(visits) = Paths(ListedFields(Traversed))

\* C9: traverseAllRichText calls the transformer on nothing when the question has no
\* data; otherwise on the listed fields in the listed order, with the legacy
\* data.rows[i].text and then data.columns[i].text (only where there is no data.table)
\* after the table and before the sub-questions, and the top-level solution.text last.
\* No other field is visited, no solution of a sub-question is, and a traversal that
\* raises has made an initial part of these visits.
C9_VisitsInOrder ==
    /\ CallReturned => Paths(visits) = Paths(RichTextFields(Traversed))
    /\ CallRaised => IsPrefix(Paths(visits), Paths(RichTextFields(Traversed)))

\* A traversal has visited a legacy column and ended with the solution of the question
C9_LegacyColumnVisited ==
    /\ CallReturned
    /\ Len(visits) > 2
    /\ visits[Len(visits) - 1].path = Str(<<"data.columns[", "0", "].text">>)
    /\ visits[Len(visits)].path = S("solution.text")

\* C10: resolveImagesForPreview and resolveImagesForPublish leave the question of the
\* caller as it was before the call, whether they return or raise, and no object
\* reachable from what they return is reachable from that question.
C10_InputUntouched ==
    /\ RewriteEnded => Load(heap, subject) = snapshot
    /\ callPc \in {"previewed", "published"} =>
          Reach(heap, resolved) \cap Reach(heap, subject) = {}

\* A rewrite has returned a question whose texts differ from those of the input
C10_CopyRewritten ==
    /\ callPc \in {"previewed", "published"}
    /\ Load(heap, resolved) # Stringified(snapshot)
    /\ Load(heap, subject) = snapshot

\* The content of the caller's question before a rewrite and of the returned one after it
ContentBefore == Get(Get(snapshot, "data"), "content")
ContentAfter == Field(heap, Field(heap, resolved, "data"), "content")

\* A resolver keyed by image ids, and a text without a gap token
IdKeyed(map) == \A key \in DOMAIN map : Len(key) = 1
NoGapToken(text) == \A p \in 1..Len(text.s) : text.s[p] # "gap"

\* What the rewrite of a text is to be when the resolver is asked for the id of each image
\* token: the Markdown reference to the resolved location, else the marker (preview) or the
\* token itself (publish)
ImageTokenLength(s, p) == IF s[p + 4] = "]" THEN 6 ELSE 7
ResolvedById(s, p, transformer) ==
    IF Truthy(MapGet(transformer.map, <<s[p + 3]>>))
       /\ Truthy(Get(MapGet(transformer.map, <<s[p + 3]>>), transformer.field))
    THEN <<"!", "[">> \o SubSeq(s, p + 2, p + ImageTokenLength(s, p) - 3) \o <<"]", "(">>
         \o ToStringJs(Get(MapGet(transformer.map, <<s[p + 3]>>), transformer.field)) \o <<")">>
    ELSE IF transformer.mode = "preview"
    THEN <<"[", "Missing: ">> \o SubSeq(s, p + 2, p + ImageTokenLength(s, p) - 3) \o <<"]">>
    ELSE SubSeq(s, p, p + ImageTokenLength(s, p) - 1)
RECURSIVE RewrittenById(_, _, _)
RewrittenById(s, p, transformer) ==
    IF p > Len(s) THEN <<>>
    ELSE IF ImageTokenAt(s, p)
    THEN ResolvedById(s, p, transformer)
         \o RewrittenById(s, p + ImageTokenLength(s, p), transformer)
    ELSE <<s[p]>> \o RewrittenById(s, p + 1, transformer)

\* C11: With a resolver keyed by image ids, a rewrite replaces every image token of
\* data.content whose id resolves by a Markdown image reference to the resolved location;
\* a token whose id has no entry becomes a marker holding the id in preview and stays as
\* it was in publish.
C11_TokensResolvedById ==
    /\ callPc = "previewed" /\ IdKeyed(store) /\ IsStr(ContentBefore) /\ NoGapToken(ContentBefore)
          => ContentAfter = Str(RewrittenById(ContentBefore.s, 1, Previewer(store)))
    /\ callPc = "published" /\ IdKeyed(store) /\ IsStr(ContentBefore) /\ NoGapToken(ContentBefore)
          => ContentAfter = Str(RewrittenById(ContentBefore.s, 1, Publisher(store)))

\* The preview has put the missing marker for [[image:a]] although the resolver holds the
\* image of id a
C11_ResolvableIdMarkedMissing ==
    /\ callPc = "previewed"
    /\ <<"a">> \in DOMAIN store /\ IdKeyed(store)
    /\ ContentBefore = Str(<<"See ">> \o ImageToken("a", <<>>))
    /\ ContentAfter = Str(<<"See ", "[", "Missing: ", "image:", "a", "]">>)

-----------------------------------------------------------------------------
(* validateQuestion *)

\* `${v}` in a template literal
TemplateText(v) ==
    CASE v.t = "undefined" -> <<"undefined">>
      [] v.t = "null" -> <<"null">>
      [] v.t = "nan" -> <<"NaN">>
      [] v.t = "function" -> <<"function ", v.name, "() { [native code] }">>
      [] OTHER -> ToStringJs(v)

\* A validator that reports the first failure only
CheckUntilFailure(errors, failing, message) ==
    IF failing /\ errors = <<>> THEN Append(errors, message) ELSE errors

\* if (failing) errors.push(message)
Check(errors, failing, message) == IF failing THEN Append(errors, message) ELSE errors

\* q.data?.k
DataField(q, k) == IF Nullish(Get(q, "data")) THEN Undefined ELSE Get(Get(q, "data"), k)
\* !q.data?.k || q.data.k.length === 0
NoneIn(q, k) == ~Truthy(DataField(q, k)) \/ LengthOf(DataField(q, k)) = Num(0)

\* Lines 1117-1127: the checks every question gets
GeneralChecks(q) ==
    Check(Check(Check(Check(Check(Check(Check(<<>>,
        ~Truthy(Get(q, "id")), S("Missing id")),
        ~Truthy(Get(q, "metadata")), S("Missing metadata")),
        ~Truthy(Get(q, "type")), S("Missing type")),
        Get(q, "type") \notin QUESTION_TYPES,
            Str(<<"Invalid type: ">> \o TemplateText(Get(q, "type")))),
        ~Truthy(Get(q, "data")), S("Missing data")),
        ~Truthy(Get(q, "solution")), S("Missing solution")),
        Truthy(Get(q, "data")) /\ ~Truthy(Get(Get(q, "data"), "style")),
            S("Missing data.style (mandatory in v4.6)"))

\* Lines 1130-1145: the checks by type
TableCheck(errors, q) ==
    IF Get(q, "type") # S("TABLE") THEN errors
    ELSE IF ~Truthy(DataField(q, "table")) THEN Append(errors, S("TABLE requires a table object"))
    ELSE Check(errors,
               \/ ~Truthy(Get(DataField(q, "table"), "rows"))
               \/ LengthOf(Get(DataField(q, "table"), "rows")) = Num(0),
               S("TABLE requires at least one row in table.rows"))
TypeChecks(errors, q) ==
    Check(TableCheck(Check(Check(errors,
        Get(q, "type") = S("MCQ") /\ NoneIn(q, "options"),
            S("MCQ requires at least one option")),
        Get(q, "type") = S("MATCH") /\ NoneIn(q, "pairs"),
            S("MATCH requires at least one pair")),
        q),
        Get(q, "type") = S("COMPOSITE") /\ NoneIn(q, "sub_questions"),
            S("COMPOSITE requires at least one sub-question"))

\* Lines 1148-1154: q.data.sub_questions.forEach((sq, i) => { if (!sq.data?.style) ... })
SubQuestionMessage(i) ==
    Str(<<"Sub-question ">> \o NatToSyms(i) \o <<" missing data.style (mandatory in v4.6)">>)
RECURSIVE SubQuestionChecks(_, _, _)
SubQuestionChecks(errors, subs, i) ==
    IF i > Len(subs) THEN Arr(errors)
    ELSE IF Nullish(subs[i]) THEN Throw
    ELSE SubQuestionChecks(Check(errors, ~Truthy(DataField(subs[i], "style")),
                                 SubQuestionMessage(i)),
                           subs, i + 1)
StyleChecks(errors, q) ==
    IF Get(q, "type") = S("COMPOSITE") /\ Truthy(DataField(q, "sub_questions"))
    THEN IF IsArr(DataField(q, "sub_questions"))
         THEN SubQuestionChecks(errors, DataField(q, "sub_questions").a, 1)
         ELSE Throw
    ELSE Arr(errors)

\* { valid: errors.length === 0, errors }
Verdict(errors) == Obj([valid |-> Bool(Len(errors.a) = 0), errors |-> errors])

validateQuestion(q) ==
    IF Nullish(q) THEN Throw
    ELSE Try(StyleChecks(TypeChecks(GeneralChecks(q), q), q), Verdict)

-----------------------------------------------------------------------------
(* The validator as a state machine: it is handed an object as JSON parsing gives it, *)
(* or the question the normalizer has made of one.                                    *)

ValidateParsed ==
    /\ stage = "input"
    /\ report' = validateQuestion(raw)
    /\ stage' = "parsed validated"
    /\ UNCHANGED <<raw, first, second, parserVars, imageVars, rendererVars, builderVars>>

ValidateNormalized ==
    /\ stage = "normalized"
    /\ first # Throw
    /\ report' = validateQuestion(first)
    /\ stage' = "normalized validated"
    /\ UNCHANGED <<raw, first, second, parserVars, imageVars, rendererVars, builderVars>>

NextValidate == Normalize \/ ValidateParsed \/ ValidateNormalized

SpecValidate == InitNormalize /\ [][NextValidate]_vars

\* The question the validator was handed
Validated == IF stage = "parsed validated" THEN raw ELSE first
ValidatorEnded == stage \in {"parsed validated", "normalized validated"}

\* C12: validateQuestion never raises, for any value JSON parsing or the normalizer can
\* produce: it returns an object with the fields valid and errors.  (It assigns to no
\* field of its argument.)
C12_ValidatorNeverRaises ==
    ValidatorEnded => report # Throw /\ Has(report, "valid") /\ IsArr(Get(report, "errors"))

\* The validator has raised on a question the normalizer returned: a COMPOSITE whose
\* sub_questions is not an array
C12_RaisedOnNormalizedComposite ==
    /\ stage = "normalized validated"
    /\ report = Throw
    /\ Get(first, "type") = S("COMPOSITE")
    /\ IsStr(Get(Get(first, "data"), "sub_questions"))

\* The messages of a returned report, and the sub-questions of the validated question
Errors == Get(report, "errors").a
ErrorSet == { Errors[i] : i \in DOMAIN Errors }
ValidatedData == Get(Validated, "data")
ValidatedSubs == ArrOf(Get(ValidatedData, "sub_questions"))
IsType(tag) == Get(Validated, "type") = S(tag)
Lacks(v, k) == ~Truthy(Get(v, k)) \/ LengthOf(Get(v, k)) = Num(0)

\* The report holds the message exactly when the check fails
Reported(message, failing) == (message \in ErrorSet) <=> failing

\* C13: Whenever validateQuestion returns, its errors list holds one message for each
\* failing check and no other message, each check decided on its own (id, metadata, type
\* present, type valid, data, solution, data.style, the MCQ, MATCH, TABLE and COMPOSITE
\* checks, and one message for each sub-question without data.style, numbered from 1),
\* and valid is true exactly when the list is empty.
C13_ChecksIndependent ==
    ValidatorEnded /\ report # Throw =>
        /\ Reported(S("Missing id"), ~Truthy(Get(Validated, "id")))
        /\ Reported(S("Missing metadata"), ~Truthy(Get(Validated, "metadata")))
        /\ Reported(S("Missing type"), ~Truthy(Get(Validated, "type")))
        /\ Reported(Str(<<"Invalid type: ">> \o TemplateText(Get(Validated, "type"))),
                    Get(Validated, "type") \notin QUESTION_TYPES)
        /\ Reported(S("Missing data"), ~Truthy(ValidatedData))
        /\ Reported(S("Missing solution"), ~Truthy(Get(Validated, "solution")))
        /\ Reported(S("Missing data.style (mandatory in v4.6)"),
                    Truthy(ValidatedData) /\ ~Truthy(Get(ValidatedData, "style")))
        /\ Reported(S("MCQ requires at least one option"),
                    IsType("MCQ") /\ Lacks(ValidatedData, "options"))
        /\ Reported(S("MATCH requires at least one pair"),
                    IsType("MATCH") /\ Lacks(ValidatedData, "pairs"))
        /\ Reported(S("TABLE requires a table object"),
                    IsType("TABLE") /\ ~Truthy(Get(ValidatedData, "table")))
        /\ Reported(S("TABLE requires at least one row in table.rows"),
                    /\ IsType("TABLE") /\ Truthy(Get(ValidatedData, "table"))
                    /\ Lacks(Get(ValidatedData, "table"), "rows"))
        /\ Reported(S("COMPOSITE requires at least one sub-question"),
                    IsType("COMPOSITE") /\ Lacks(ValidatedData, "sub_questions"))
        /\ \A i \in 1..MaxSubs + 1 :
              Reported(SubQuestionMessage(i),
                       /\ IsType("COMPOSITE") /\ i <= Len(ValidatedSubs)
                       /\ ~Truthy(Get(Get(ValidatedSubs[i], "data"), "style")))
        /\ Cardinality(ErrorSet) = Len(Errors)
        /\ Len(Errors) <= 12 + Len(ValidatedSubs)
        /\ Get(report, "valid") = Bool(Errors = <<>>)

\* The validator has returned several messages at once, the one for the second
\* sub-question among them
C13_SeveralMessages ==
    /\ ValidatorEnded /\ report # Throw
    /\ Len(Errors) >= 3
    /\ SubQuestionMessage(2) \in ErrorSet
    /\ SubQuestionMessage(1) \notin ErrorSet
    /\ Get(report, "valid") = Bool(FALSE)

\* C14: When the array attempt or the single-object attempt of parseMixedJson fails and
\* the parser falls back to the scan, the scan starts with an empty list of results: the
\* failed attempt has left no question in it.
C14_FallbackStartsEmpty ==
    parsePc = "scan" /\ cursor = 0 => results = <<>>

\* The parser has returned from a text whose array attempt failed on its second element:
\* the scan found no object of its own (its buffer opens with the bracket), and the list
\* returned holds the first element, which the failed attempt had pushed.
C14_PrefixOfFailedArray ==
    /\ parsePc = "done"
    /\ jsonText = ArrayText(<<DocCanonical, DocNumberType>>)
    /\ \E g \in GenIds : results = <<QuestionOf(DocCanonical, g)>>

-----------------------------------------------------------------------------
(* The conversion of the legacy rows/columns pair *)

\* The label of a legacy row or column: the string itself, else its text, else its id
LegacyLabel(x) ==
    IF IsStr(x) THEN x
    ELSE IF Truthy(Get(x, "text")) THEN Get(x, "text")
    ELSE IF Truthy(Get(x, "id")) THEN Get(x, "id")
    ELSE Empty

\* A list of legacy rows or columns: strings and objects
LegacyList(v) == IsArr(v) /\ \A i \in 1..Len(v.a) : IsStr(v.a[i]) \/ IsObj(v.a[i])

\* The data holds the rows/columns pair and no table
LegacyPair(data) ==
    /\ IsObj(data) /\ ~Has(data, "table")
    /\ LegacyList(Get(data, "rows")) /\ LegacyList(Get(data, "columns"))

\* [label, '' for each remaining column]
LabelledRow(label, width) == Arr([j \in 1..width |-> IF j = 1 THEN label ELSE Empty])

\* The table the pair stands for
TableOfPair(rows, columns) ==
    Obj([header |-> Arr([i \in 1..Len(columns.a) |-> LegacyLabel(columns.a[i])]),
         rows   |-> Arr([i \in 1..Len(rows.a) |->
                           LabelledRow(LegacyLabel(rows.a[i]),
                                       IF Len(columns.a) > 1 THEN Len(columns.a) ELSE 1)])])

\* C15: a TABLE question whose data holds the legacy rows/columns pair instead of table is
\* normalized to data whose table.header lists the column labels and whose table.rows[i] is
\* the label of row i followed by '' for each remaining column, and whose rows and columns
\* fields are gone.
C15_LegacyPairConverted ==
    stage # "input" /\ Get(raw, "type") = S("TABLE") /\ LegacyPair(Get(raw, "data")) =>
        /\ first # Throw
        /\ Get(Get(first, "data"), "table")
              = TableOfPair(Get(Get(raw, "data"), "rows"), Get(Get(raw, "data"), "columns"))
        /\ ~Has(Get(first, "data"), "rows")
        /\ ~Has(Get(first, "data"), "columns")

\* Columns [A, B] with rows [{text: r1}, {text: r2}] have become header [A, B] and rows
\* [[r1, ''], [r2, '']]
C15_ExampleConverted ==
    /\ stage = "normalized"
    /\ Get(raw, "type") = S("TABLE")
    /\ Get(Get(raw, "data"), "columns") = Arr(<<S("A"), S("B")>>)
    /\ Get(Get(raw, "data"), "rows") = Arr(<<Obj([text |-> S("r1")]), Obj([text |-> S("r2")])>>)
    /\ ~Has(Get(raw, "data"), "table")
    /\ Get(Get(first, "data"), "table")
          = Obj([header |-> Arr(<<S("A"), S("B")>>),
                 rows |-> Arr(<<Arr(<<S("r1"), Empty>>), Arr(<<S("r2"), Empty>>)>>)])
    /\ ~Has(Get(first, "data"), "rows") /\ ~Has(Get(first, "data"), "columns")

-----------------------------------------------------------------------------
(* formatRichText of the renderer, on the symbols of a text.  A token is written symbol *)
(* by symbol; the digits of a width and the dimensions of an image are one symbol each. *)
(* KaTeX and marked are libraries loaded beside the renderer: renderLatexMath and       *)
(* renderMarkdown return their argument when they are not loaded, and the model renders *)
(* without them.  options.interactive keeps its default.                                *)

DEFAULT_GAP_WIDTH == <<"60px">>

\* The symbols that are digits only: \d+
DigitSyms == {"8", "120"}
\* The symbols whose text begins with 'gap'
GapPrefixed == {"gap", "gapless"}

\* `${kind}${n}`
PlaceholderFor(kind, n) == <<"\\uE000", kind>> \o NatToSyms(n) \o <<"\\uE001">>

\* /\[\[image:([^\]]+)\]\]/ matches at p
RenderedImageAt(s, p) ==
    /\ p + 2 <= Len(s) /\ s[p] = "[" /\ s[p + 1] = "[" /\ s[p + 2] = "image:"
    /\ CloseAfter(s, p + 3) > p + 3
    /\ CloseAfter(s, p + 3) + 1 <= Len(s) /\ s[CloseAfter(s, p + 3) + 1] = "]"
\* tagContent, the capture
TagContentAt(s, p) == SubSeq(s, p + 3, CloseAfter(s, p + 3) - 1)

\* parseImageTag: the id is what stands before the first '|'; the dimensions follow it
DimensionAt(tag) ==
    IF \E i \in 1..Len(tag) : tag[i] \in {Dimensions[1]}
    THEN CHOOSE i \in 1..Len(tag) : tag[i] = Dimensions[1] /\ \A j \in 1..(i - 1) : tag[j] # Dimensions[1]
    ELSE Len(tag) + 1
CleanTag(tag) == IF tag # <<>> /\ Head(tag) = "image:" THEN Tail(tag) ELSE tag
parseImageTag(tag) ==
    [id     |-> SubSeq(CleanTag(tag), 1, DimensionAt(CleanTag(tag)) - 1),
     sized  |-> DimensionAt(CleanTag(tag)) <= Len(CleanTag(tag))]

\* imageResolver(imageId)
ResolvedUrl(resolver, id) == IF id \in DOMAIN resolver THEN resolver[id] ELSE <<>>

\* Lines 137-162: the markup of one image token
ImageMarkup(resolver, parsed) ==
    IF ResolvedUrl(resolver, parsed.id) # <<>>
    THEN <<"<div class=\"p-asset\"><img src=\"">> \o ResolvedUrl(resolver, parsed.id)
         \o <<"\" alt=\"">> \o parsed.id \o <<"\" style=\"">>
         \o (IF parsed.sized THEN <<"width:60px;height:40px;">>
             ELSE <<"max-width:100%; max-height:200px;">>)
         \o <<"\"></div>">>
    ELSE <<"<div class=\"p-asset-placeholder\">[Image: ">> \o parsed.id \o <<"]</div>">>

\* Lines 132-167: the text with the n-th image token replaced by its placeholder, and the
\* markup pushed
RECURSIVE ImagesProtected(_, _, _)
ImagesProtected(s, p, n) ==
    IF p > Len(s) THEN <<>>
    ELSE IF RenderedImageAt(s, p)
    THEN PlaceholderFor("IMG", n) \o ImagesProtected(s, CloseAfter(s, p + 3) + 2, n + 1)
    ELSE <<s[p]>> \o ImagesProtected(s, p + 1, n)
RECURSIVE ImageMarkups(_, _, _)
ImageMarkups(s, p, resolver) ==
    IF p > Len(s) THEN <<>>
    ELSE IF RenderedImageAt(s, p)
    THEN <<ImageMarkup(resolver, parseImageTag(TagContentAt(s, p)))>>
         \o ImageMarkups(s, CloseAfter(s, p + 3) + 2, resolver)
    ELSE ImageMarkups(s, p + 1, resolver)

\* /\[\[gap(?:\|width:(\d+))?\]\]/ matches at p, without or with a width
PlainGapAt(s, p) ==
    /\ p + 4 <= Len(s) /\ s[p] = "[" /\ s[p + 1] = "[" /\ s[p + 2] = "gap"
    /\ s[p + 3] = "]" /\ s[p + 4] = "]"
WidthGapAt(s, p) ==
    /\ p + 6 <= Len(s) /\ s[p] = "[" /\ s[p + 1] = "[" /\ s[p + 2] = "gap"
    /\ s[p + 3] = "|width:" /\ s[p + 4] \in DigitSyms /\ s[p + 5] = "]" /\ s[p + 6] = "]"
GapAt(s, p) == PlainGapAt(s, p) \/ WidthGapAt(s, p)
GapEnd(s, p) == IF PlainGapAt(s, p) THEN p + 4 ELSE p + 6

\* `<span class="p-gap" style="width:${width};">&nbsp;</span>`
GapMarkup(width) == <<"<span class=\"p-gap\" style=\"width:">> \o width \o <<";\">&nbsp;</span>">>

\* Lines 170-176
RECURSIVE GapsProtected(_, _, _)
GapsProtected(s, p, n) ==
    IF p > Len(s) THEN <<>>
    ELSE IF GapAt(s, p)
    THEN PlaceholderFor("GAP", n) \o GapsProtected(s, GapEnd(s, p) + 1, n + 1)
    ELSE <<s[p]>> \o GapsProtected(s, p + 1, n)
RECURSIVE GapMarkups(_, _)
GapMarkups(s, p) ==
    IF p > Len(s) THEN <<>>
    ELSE IF GapAt(s, p)
    THEN <<GapMarkup(IF PlainGapAt(s, p) THEN DEFAULT_GAP_WIDTH ELSE <<s[p + 4], "px">>)>>
         \o GapMarkups(s, GapEnd(s, p) + 1)
    ELSE GapMarkups(s, p + 1)

\* text.includes('[[gap')
IncludesGapOpening(s) ==
    \E p \in 1..(Len(s) - 2) : s[p] = "[" /\ s[p + 1] = "[" /\ s[p + 2] \in GapPrefixed

\* /_{2,}/ matches at p; the run is as long as it can be
RECURSIVE RunLength(_, _)
RunLength(s, p) == IF p <= Len(s) /\ s[p] = "_" THEN 1 + RunLength(s, p + 1) ELSE 0
\* Math.max(60, match.length * 10) + 'px'
BlankWidth(length) == NatToSyms(IF length * 10 > 60 THEN length * 10 ELSE 60) \o <<"px">>

\* Lines 181-188
RECURSIVE BlanksProtected(_, _, _)
BlanksProtected(s, p, n) ==
    IF p > Len(s) THEN <<>>
    ELSE IF RunLength(s, p) >= 2
    THEN PlaceholderFor("GAP", n) \o BlanksProtected(s, p + RunLength(s, p), n + 1)
    ELSE <<s[p]>> \o BlanksProtected(s, p + 1, n)
RECURSIVE BlankMarkups(_, _)
BlankMarkups(s, p) ==
    IF p > Len(s) THEN <<>>
    ELSE IF RunLength(s, p) >= 2
    THEN <<GapMarkup(BlankWidth(RunLength(s, p)))>> \o BlankMarkups(s, p + RunLength(s, p))
    ELSE BlankMarkups(s, p + 1)

\* result.replace(pattern, markup) with a string pattern: the first occurrence only
OccursAt(s, p, pattern) ==
    p + Len(pattern) - 1 <= Len(s) /\ SubSeq(s, p, p + Len(pattern) - 1) = pattern
ReplaceFirst(s, pattern, markup) ==
    IF \E p \in 1..Len(s) : OccursAt(s, p, pattern)
    THEN SubSeq(s, 1, (CHOOSE p \in 1..Len(s) :
                          OccursAt(s, p, pattern) /\ \A q \in 1..(p - 1) : ~OccursAt(s, q, pattern)) - 1)
         \o markup
         \o SubSeq(s, (CHOOSE p \in 1..Len(s) :
                          OccursAt(s, p, pattern) /\ \A q \in 1..(p - 1) : ~OccursAt(s, q, pattern))
                      + Len(pattern), Len(s))
    ELSE s

\* Lines 198-203: the placeholders of one kind are given their markup back, in order
RECURSIVE Restored(_, _, _, _)
Restored(s, kind, markups, i) ==
    IF i > Len(markups) THEN s
    ELSE Restored(ReplaceFirst(s, PlaceholderFor(kind, i - 1), markups[i]), kind, markups, i + 1)

-----------------------------------------------------------------------------
(* The texts handed to formatRichText *)

MaxSegments == 3   \* segments of a rendered text

WidthGapToken == <<"[", "[", "gap", "|width:", "120", "]", "]">>
\* What opens like a gap token and is none: [[gap|width:wide]] and [[gapless]]
WordWidthToken == <<"[", "[", "gap", "|width:", "wide", "]", "]">>
GaplessToken == <<"[", "[", "gapless", "]", "]">>

Segments ==
    { <<"Fill ">>, <<"_">>, <<"_", "_", "_">>, <<"_", "_", "_", "_">>,
      GapToken, WidthGapToken, WordWidthToken, GaplessToken,
      ImageToken("a", <<>>), <<"[", "[", "image:", "my", "_", "_", "pic">> \o Dimensions \o <<"]", "]">> }

RenderedTexts == { Flatten(l) : l \in SeqsUpTo(Segments, MaxSegments) }

ResolverInputs == { <<>>, (<<"a">> :> <<"https://cdn/a.png">>) }

InitRender ==
    /\ richText \in RenderedTexts
    /\ imageResolver \in ResolverInputs
    /\ html = <<>>
    /\ imagePlaceholders = <<>>
    /\ gapPlaceholders = <<>>
    /\ renderPc = "called"
    /\ NormalizerIdle
    /\ ParserIdle
    /\ ImagesIdle
    /\ BuilderIdle

\* Lines 119-167: the empty text is answered with ''; else the image tokens are set aside
ProtectImages ==
    /\ renderPc = "called"
    /\ IF richText = <<>>
       THEN html' = <<>> /\ renderPc' = "done" /\ UNCHANGED imagePlaceholders
       ELSE /\ html' = ImagesProtected(richText, 1, 0)
            /\ imagePlaceholders' = ImageMarkups(richText, 1, imageResolver)
            /\ renderPc' = "images"
    /\ UNCHANGED <<normalizerVars, parserVars, imageVars, builderVars, richText, imageResolver,
                   gapPlaceholders>>

\* Lines 170-176
ProtectGaps ==
    /\ renderPc = "images"
    /\ html' = GapsProtected(html, 1, 0)
    /\ gapPlaceholders' = GapMarkups(html, 1)
    /\ renderPc' = "gaps"
    /\ UNCHANGED <<normalizerVars, parserVars, imageVars, builderVars, richText, imageResolver,
                   imagePlaceholders>>

\* Lines 180-189
ProtectBlanks ==
    /\ renderPc = "gaps"
    /\ IF ~IncludesGapOpening(richText)
       THEN /\ html' = BlanksProtected(html, 1, Len(gapPlaceholders))
            /\ gapPlaceholders' = gapPlaceholders \o BlankMarkups(html, 1)
       ELSE UNCHANGED <<html, gapPlaceholders>>
    /\ renderPc' = "blanks"
    /\ UNCHANGED <<normalizerVars, parserVars, imageVars, builderVars, richText, imageResolver,
                   imagePlaceholders>>

\* Lines 192-205: mathematics and Markdown, then the markup set aside is put back
RestorePlaceholders ==
    /\ renderPc = "blanks"
    /\ html' = Restored(Restored(html, "IMG", imagePlaceholders, 1), "GAP", gapPlaceholders, 1)
    /\ renderPc' = "done"
    /\ UNCHANGED <<normalizerVars, parserVars, imageVars, builderVars, richText, imageResolver,
                   imagePlaceholders, gapPlaceholders>>

NextRender == ProtectImages \/ ProtectGaps \/ ProtectBlanks \/ RestorePlaceholders

SpecRender == InitRender /\ [][NextRender]_vars

-----------------------------------------------------------------------------
(* Properties of the renderer *)

\* Position q of s lies in an image token
InImageToken(s, q) ==
    \E p \in 1..q : RenderedImageAt(s, p) /\ q <= CloseAfter(s, p + 3) + 1
\* The positions where a gap token starts, and whether there is one
GapTokenStarts(s) == { p \in 1..Len(s) : GapAt(s, p) }
HasGapToken(s) == GapTokenStarts(s) # {}
\* The positions outside image tokens where a run of two or more underscores starts
BlankStarts(s) ==
    { p \in 1..(Len(s) - 1) :
        /\ s[p] = "_" /\ s[p + 1] = "_" /\ (p = 1 \/ s[p - 1] # "_")
        /\ ~InImageToken(s, p) }
\* The markups set aside for gaps
GapMarkupSet == { gapPlaceholders[i] : i \in 1..Len(gapPlaceholders) }

\* C16: formatRichText turns the runs of two or more underscores into gaps only when the
\* text holds no explicit gap token.  In a text with a gap token, each gap token is set
\* aside as a gap and every underscore run stays in the text; in a text with no gap token,
\* every underscore run is set aside as a gap whose width comes from the length of the run.
C16_BlanksUnlessGapToken ==
    renderPc = "blanks" =>
        IF HasGapToken(richText)
        THEN /\ Len(gapPlaceholders) = Cardinality(GapTokenStarts(richText))
             /\ Cardinality(BlankStarts(html)) = Cardinality(BlankStarts(richText))
        ELSE /\ BlankStarts(html) = {}
             /\ Len(gapPlaceholders) = Cardinality(BlankStarts(richText))
             /\ \A p \in BlankStarts(richText) :
                   GapMarkup(BlankWidth(RunLength(richText, p))) \in GapMarkupSet

\* A text with no gap token, only the opening of one, has been rendered with its
\* underscore run left as it was
C16_BlankKeptWithoutGapToken ==
    /\ renderPc = "done"
    /\ richText = WordWidthToken \o <<"_", "_", "_">>
    /\ ~HasGapToken(richText)
    /\ html = richText
    /\ gapPlaceholders = <<>>

-----------------------------------------------------------------------------
(* The metadata of a normalized question *)

MetadataFields == {"grade", "subject", "chapter", "section", "difficulty", "marks", "pool", "subpool"}

\* What normalize returned, and its metadata
Normalized == stage # "input" /\ first # Throw
MetadataOf(q) == Get(q, "metadata")

\* C17: after normalize, the metadata holds each of grade, subject, chapter, section,
\* difficulty, marks, pool and subpool, whatever the input held of them.
C17_EveryMetadataField ==
    Normalized => \A f \in MetadataFields : Has(MetadataOf(first), f)

\* A canonical question without metadata has been normalized: the seven other fields have
\* their defaults and there is no subpool
C17_NoSubpool ==
    /\ stage = "normalized" /\ first # Throw
    /\ Has(raw, "data") /\ ~Has(raw, "metadata")
    /\ \A f \in MetadataFields \ {"subpool"} : Has(MetadataOf(first), f)
    /\ Get(MetadataOf(first), "pool") = S("Practice")
    /\ ~Has(MetadataOf(first), "subpool")

\* C18: after normalize, metadata.marks is an integer of at least 1, for every input, marks
\* or points of 0 included.
C18_MarksAtLeastOne ==
    Normalized =>
        /\ Get(MetadataOf(first), "marks").t = "number"
        /\ Get(MetadataOf(first), "marks").n >= 1

\* A canonical question with marks 0 has been normalized and its marks are 0
C18_ZeroMarksKept ==
    /\ stage = "normalized" /\ first # Throw
    /\ Has(raw, "data")
    /\ Get(MetadataOf(raw), "marks") = Num(0)
    /\ Get(MetadataOf(first), "marks") = Num(0)

-----------------------------------------------------------------------------
(* The fallback scan on concatenated objects *)

\* Two or more well-formed objects which the normalizer accepts, concatenated or one a line
Concatenations == { l \in SeqsUpTo(ScanDocs, MaxElems) : Len(l) >= 2 }

\* C19: braces inside quoted strings, strings with escaped quotes and escaped backslashes
\* included, do not change the depth of the scan: for a concatenation of well-formed
\* objects, parseMixedJson returns exactly one Question per object, the normalization of
\* that object, in the order of the input, and the scan ends with an empty buffer at depth 0
\* outside any string.
C19_OneQuestionPerObject ==
    parsePc = "done" =>
        \A l \in Concatenations, sep \in Separators :
            jsonText = Separated(l, sep) =>
                /\ \E g \in GenIds : results = [i \in 1..Len(l) |-> QuestionOf(l[i], g)]
                /\ buffer = <<>> /\ braceCount = 0 /\ ~inString /\ ~escape

\* The scan has ended on two objects whose strings hold lone braces, escaped quotes and
\* backslashes, and has returned the two questions
C19_QuotedBracesScanned ==
    /\ parsePc = "done"
    /\ jsonText = DocBraces \o DocEscaped
    /\ cursor = Len(jsonText)
    /\ Len(results) = 2
    /\ Get(results[1], "id") = S("d") /\ Get(results[2], "id") = S("c")
    /\ Get(Get(results[1], "data"), "content") = Str(<<"a ", "}", " ", "\"", " ", "{", " b">>)

-----------------------------------------------------------------------------
(* The tokens of the older generations' assets *)

\* The texts of a converted question that hold the tokens of assets: the content or the
\* common content, and the texts of the options
OptionTexts(options) ==
    IF IsArr(options)
    THEN { Get(options.a[i], "text") : i \in 1..Len(options.a) }
    ELSE {}
AssetTexts(q) ==
    { t \in {Get(Get(q, "data"), "content"), Get(Get(q, "data"), "common_content")}
            \cup OptionTexts(Get(Get(q, "data"), "options")) : IsStr(t) }

\* The input is of an older generation: normalizeToV40Schema converts it
OlderGeneration(q) == ~Truthy(Get(q, "data")) \/ Get(q, "type") \notin QUESTION_TYPES

\* C20: every token the conversion of an older generation emits for an asset has the form
\* [[image:<id>]], so that the pattern of the renderer matches it.
C20_AssetTokensRendered ==
    Normalized /\ OlderGeneration(raw) =>
        \A t \in AssetTexts(first) : \A p \in 1..Len(t.s) :
            MatchAt(t.s, p) => RenderedImageAt(t.s, p)

\* The assets img1 and '#' of a prompt have been converted: the content holds the token
\* [[img1]], which the pattern of the renderer does not match, and nothing for '#'
C20_TokenWithoutPrefix ==
    /\ stage = "normalized" /\ first # Throw
    /\ Get(Get(raw, "prompt"), "assets")
         = Arr(<<Obj([asset_id |-> S("img1")]), Obj([asset_id |-> S("#")])>>)
    /\ IsStr(Get(Get(first, "data"), "content"))
    /\ \E p \in 1..Len(Get(Get(first, "data"), "content").s) :
          /\ MatchAt(Get(Get(first, "data"), "content").s, p)
          /\ TokenAt(Get(Get(first, "data"), "content").s, p) = <<"[", "[", "img1", "]", "]">>
          /\ ~RenderedImageAt(Get(Get(first, "data"), "content").s, p)
    /\ \A p \in 1..Len(Get(Get(first, "data"), "content").s) :
          Get(Get(first, "data"), "content").s[p] # "#"

-----------------------------------------------------------------------------
(* The data of converted questions *)

\* The input is of the mid generation; the content and the type tag of an older input
IsNested(q) == Truthy(Get(q, "taxonomy")) /\ Truthy(Get(q, "content"))
OldContent(q) == IF IsNested(q) THEN Get(q, "content") ELSE q
OldType(q) == IF IsNested(q) THEN Get(Get(q, "taxonomy"), "type") ELSE Get(q, "type")

\* An older input has been converted
Converted == Normalized /\ OlderGeneration(raw)
DataOf(q) == Get(q, "data")

\* C21: the common content of an old COMPOSITE question is the fusion of its stimulus and
\* prompt under the general rule: the non-empty parts joined by one blank line, with no
\* separator before the first or after the last.
C21_CommonContentFused ==
    Converted /\ Get(first, "type") = S("COMPOSITE") =>
        Get(DataOf(first), "common_content")
          = buildRichTextContent(Get(OldContent(raw), "prompt"), Get(OldContent(raw), "stimulus"))

\* A composite with a prompt and no stimulus has been converted: its common content is
\* the separator followed by the prompt
C21_LeadingSeparator ==
    /\ stage = "normalized" /\ first # Throw
    /\ Get(raw, "type") = S("composite")
    /\ Get(raw, "prompt") = S("2+2?") /\ ~Has(raw, "stimulus")
    /\ Get(DataOf(first), "common_content") = Str(<<"\n\n", "2+2?">>)

\* C22: an older question whose type is multi_select or multiple_selection is normalized
\* to an MCQ whose data has allow_multiple = true.
C22_MultiSelectIsMcq ==
    Converted /\ MultiSelect(OldType(raw)) =>
        /\ Get(first, "type") = S("MCQ")
        /\ Get(DataOf(first), "allow_multiple") = Bool(TRUE)

\* A multi_select question has been converted to a SUBJECTIVE one without allow_multiple
C22_MultiSelectSubjective ==
    /\ stage = "normalized" /\ first # Throw
    /\ OlderGeneration(raw) /\ OldType(raw) = S("multi_select")
    /\ Get(first, "type") = S("SUBJECTIVE")
    /\ ~Has(DataOf(first), "allow_multiple")
    /\ ~Has(DataOf(first), "options")

\* The old type tag is long_answer, in any case of letters
IsLongAnswer(oldType) == IsStr(oldType) /\ ToLowerCase(oldType) = S("long_answer")

\* C23: for an older question normalized to SUBJECTIVE, expected_length is 'long' exactly
\* when the old type is long_answer in any case of letters, and 'short' otherwise.
C23_LongExactlyForLongAnswer ==
    Converted /\ Get(first, "type") = S("SUBJECTIVE") =>
        Get(DataOf(first), "expected_length")
          = (IF IsLongAnswer(OldType(raw)) THEN S("long") ELSE S("short"))

\* A question of type Long_Answer has been converted to a SUBJECTIVE one of short length
C23_CapitalisedLongAnswerShort ==
    /\ stage = "normalized" /\ first # Throw
    /\ OlderGeneration(raw) /\ OldType(raw) = S("Long_Answer")
    /\ Get(first, "type") = S("SUBJECTIVE")
    /\ Get(DataOf(first), "expected_length") = S("short")

-----------------------------------------------------------------------------
(* The layouts of a normalized style *)

LAYOUT_VALUES == {S("vertical"), S("horizontal")}
SUB_LAYOUT_VALUES == {S("vertical"), S("horizontal"), S("matrix")}

\* The input is canonical and has a style object, which normalizeStyleValues is handed
StyleNormalized ==
    Normalized /\ ~OlderGeneration(raw) /\ IsObj(raw) /\ IsObj(StyleOf(raw))

\* C24: after the normalization of an existing style object, image_layout and
\* options_layout are each vertical or horizontal and sub_questions_layout is vertical,
\* horizontal or matrix, whatever the input held in those fields.
C24_LayoutsInRange ==
    StyleNormalized =>
        /\ Get(StyleOf(first), "image_layout") \in LAYOUT_VALUES
        /\ Has(StyleOf(first), "options_layout")
              => Get(StyleOf(first), "options_layout") \in LAYOUT_VALUES
        /\ Has(StyleOf(first), "sub_questions_layout")
              => Get(StyleOf(first), "sub_questions_layout") \in SUB_LAYOUT_VALUES

\* A style whose image_layout is 'diagonal' has been normalized and the value is still
\* 'diagonal'
C24_UnknownLayoutKept ==
    /\ stage = "normalized" /\ StyleNormalized
    /\ Get(StyleOf(raw), "image_layout") = S("diagonal")
    /\ Get(StyleOf(first), "image_layout") = S("diagonal")

-----------------------------------------------------------------------------
(* The chapter of a normalized question *)

\* The chapter fields an input of each generation may supply
ChapterSupplied(q) ==
    IF ~OlderGeneration(q) THEN {Get(MetadataOf(q), "chapter")}
    ELSE IF IsNested(q) THEN {Get(Get(q, "taxonomy"), "unit_id"), Get(Get(q, "taxonomy"), "chapter_id")}
    ELSE {Get(q, "unit_id"), Get(q, "chapter_id"), Get(q, "chapter")}

\* C25: a chapter of 0 supplied in the input (metadata.chapter of a canonical question;
\* chapter, chapter_id or unit_id of an older one) is still 0 in metadata.chapter after
\* normalize.
C25_ChapterZeroKept ==
    Normalized /\ IsObj(MetadataOf(first)) /\ ChapterSupplied(raw) \subseteq {Num(0), Undefined}
               /\ Num(0) \in ChapterSupplied(raw) =>
        Get(MetadataOf(first), "chapter") = Num(0)

\* A question of the mid generation with unit_id 0 has been normalized to chapter 1
C25_UnitZeroReplaced ==
    /\ stage = "normalized" /\ first # Throw
    /\ IsNested(raw) /\ Get(Get(raw, "taxonomy"), "unit_id") = Num(0)
    /\ Get(MetadataOf(first), "chapter") = Num(1)

-----------------------------------------------------------------------------
(* The gap tokens under the rewrites *)

HasImageToken(s) == \E p \in 1..Len(s) : ImageTokenAt(s, p)

\* C26: a rewrite, for preview or for publication, changes image tokens only: the gap
\* tokens of data.content are in the content of the resolved question, as many as before,
\* and a content without image tokens is returned as it was.
C26_GapTokensKept ==
    callPc \in {"previewed", "published"} /\ IsStr(ContentBefore) =>
        /\ IsStr(ContentAfter)
        /\ Cardinality(GapTokenStarts(ContentAfter.s))
             = Cardinality(GapTokenStarts(ContentBefore.s))
        /\ ~HasImageToken(ContentBefore.s) => ContentAfter = ContentBefore

\* The preview has replaced the gap token of 'I [[gap]] here' by the missing marker
C26_GapMarkedMissing ==
    /\ callPc = "previewed"
    /\ ContentBefore = Str(<<"I ">> \o GapToken \o <<" here">>)
    /\ ContentAfter = Str(<<"I ", "[", "Missing: ", "gap", "]", " here">>)

-----------------------------------------------------------------------------
(* Canonical type tags on inputs without data *)

\* C27: an input without a data field whose type is one of the six canonical tags is
\* normalized to a question of that type.
C27_CanonicalTagKept ==
    Normalized /\ ~Has(raw, "data") /\ Get(raw, "type") \in QUESTION_TYPES =>
        Get(first, "type") = Get(raw, "type")

\* An input of type TABLE without data has been normalized to a SUBJECTIVE question
C27_TableBecomesSubjective ==
    /\ stage = "normalized" /\ first # Throw
    /\ ~Has(raw, "data") /\ Get(raw, "type") = S("TABLE")
    /\ Get(first, "type") = S("SUBJECTIVE")
    /\ ~Has(DataOf(first), "table")

-----------------------------------------------------------------------------
(* The depth of the scan *)

\* C28: during the fallback scan the depth of open braces is never negative; a closing
\* brace that closes nothing leaves it at 0, and the objects after it are still delimited.
C28_DepthNeverNegative ==
    braceCount >= 0

\* The scan has ended below depth 0 after a stray closing brace, and the object that
\* followed the brace is not among the results
C28_ObjectLostAfterStrayBrace ==
    /\ parsePc = "done"
    /\ jsonText = DocCanonical \o <<"}", "\n">> \o DocFlat
    /\ braceCount = -1
    /\ \E g \in GenIds : results = <<QuestionOf(DocCanonical, g)>>

-----------------------------------------------------------------------------
(* The paths of one traversal *)

\* C29: within one call of traverseAllRichText no two invocations of the visitor receive
\* the same path: each visited field, those of sub-questions included, has a path of its
\* own.
C29_PathsDistinct ==
    \A i, j \in 1..Len(visits) : i # j => visits[i].path # visits[j].path

\* The traversal of a composite has returned after handing the path data.content to the
\* visitor twice, for the contents of two sub-questions
C29_ContentPathTwice ==
    /\ CallReturned
    /\ Get(snapshot, "type") = S("COMPOSITE")
    /\ ~Has(Get(snapshot, "data"), "content")
    /\ \E i, j \in 1..Len(visits) :
          i < j /\ visits[i].path = S("data.content") /\ visits[j].path = S("data.content")

-----------------------------------------------------------------------------
(* The assessment builder of the wireframe: the selected questions, their marks and   *)
(* sections, the sections skipped, and the totals on display.  Each handler ends with *)
(* calculateTotals, which writes the two totals.                                      *)

maxMarks == 20
Sections == {"A", "B", "C"}

\* The cards of the question list: id and marks of each addQuestion button
Cards == { [id |-> "q1", marks |-> 3], [id |-> "q2", marks |-> 4],
           [id |-> "q3", marks |-> 2], [id |-> "q4", marks |-> 1] }

MaxSelected == 2   \* questions selected at a time

\* What the user may leave in a marks field (input type="number"): nothing, or the
\* numeral of a number, which parseInt reads back
MarkInputs == { Empty, Num(-1), Num(0), Num(20) }

\* The sum of item.marks over the items that satisfy Counted
RECURSIVE SumMarks(_, _)
SumMarks(items, counted) ==
    IF items = <<>> THEN 0
    ELSE (IF Head(items).id \in counted THEN Head(items).marks ELSE 0)
         + SumMarks(Tail(items), counted)

\* The ids of the questions in sections that are not skipped, and in one section
ActiveIds(items, config) ==
    { items[i].id : i \in { k \in 1..Len(items) : ~config[items[k].section] } }
SectionIds(items, sec) ==
    { items[i].id : i \in { k \in 1..Len(items) : items[k].section = sec } }

\* calculateTotals: the grand total and the total of the current section
calculateTotals(items, config, sec) ==
    /\ totalMarks' = SumMarks(items, ActiveIds(items, config))
    /\ sectionMarks' = SumMarks(items, SectionIds(items, sec))

Selected(qid) == \E i \in 1..Len(questions) : questions[i].id = qid

InitBuilder ==
    /\ currentSection = "A"
    /\ questions = <<>>
    /\ sectionConfig = [sec \in Sections |-> FALSE]
    /\ toggleSkip = FALSE
    /\ totalMarks = 0
    /\ sectionMarks = 0
    /\ builderPc = "open"
    /\ NormalizerIdle
    /\ ParserIdle
    /\ ImagesIdle
    /\ RendererIdle

\* setSection(sectionId): the tab of a section is chosen
setSection ==
    /\ builderPc = "open"
    /\ \E sectionId \in Sections :
          /\ currentSection' = sectionId
          /\ toggleSkip' = sectionConfig[sectionId]
          /\ calculateTotals(questions, sectionConfig, sectionId)
    /\ UNCHANGED <<normalizerVars, parserVars, imageVars, rendererVars, questions,
                   sectionConfig, builderPc>>

\* toggleSkipSection(): the checkbox has been flipped, the handler stores what it shows
toggleSkipSection ==
    /\ builderPc = "open"
    /\ toggleSkip' = ~toggleSkip
    /\ sectionConfig' = [sectionConfig EXCEPT ![currentSection] = ~toggleSkip]
    /\ calculateTotals(questions, [sectionConfig EXCEPT ![currentSection] = ~toggleSkip],
                       currentSection)
    /\ UNCHANGED <<normalizerVars, parserVars, imageVars, rendererVars, questions,
                   currentSection, builderPc>>

\* addQuestion(id, marks, title): a card's button; a question already selected is left
addQuestion ==
    /\ builderPc = "open"
    /\ Len(questions) < MaxSelected
    /\ \E card \in Cards :
          IF Selected(card.id)
          THEN UNCHANGED <<questions, totalMarks, sectionMarks>>
          ELSE /\ questions' = Append(questions, [id |-> card.id, marks |-> card.marks,
                                                  section |-> currentSection])
               /\ calculateTotals(Append(questions, [id |-> card.id, marks |-> card.marks,
                                                     section |-> currentSection]),
                                  sectionConfig, currentSection)
    /\ UNCHANGED <<normalizerVars, parserVars, imageVars, rendererVars, currentSection,
                   sectionConfig, toggleSkip, builderPc>>

\* The list of the selected questions takes no click while its section is skipped
\* (pointer-events-none, line 544)
ListEnabled == ~sectionConfig[currentSection]

\* removeQuestion(id): the bin of a question of the list on display
removeQuestion ==
    /\ builderPc = "open" /\ ListEnabled
    /\ \E qid \in SectionIds(questions, currentSection) :
          /\ questions' = SelectSeq(questions, LAMBDA q : q.id # qid)
          /\ calculateTotals(SelectSeq(questions, LAMBDA q : q.id # qid), sectionConfig,
                             currentSection)
    /\ UNCHANGED <<normalizerVars, parserVars, imageVars, rendererVars, currentSection,
                   sectionConfig, toggleSkip, builderPc>>

\* Lines 676-693: the total of the active questions with the new marks in place
ProjectedTotal(qid, newMarks) ==
    SumMarks([i \in 1..Len(questions) |->
                 IF questions[i].id = qid THEN [questions[i] EXCEPT !.marks = newMarks]
                 ELSE questions[i]],
             ActiveIds(questions, sectionConfig))
WithMarks(qid, newMarks) ==
    [i \in 1..Len(questions) |->
        IF questions[i].id = qid THEN [questions[i] EXCEPT !.marks = newMarks]
        ELSE questions[i]]

\* updateMarks(id, inputElement): the marks field of a question of the list has changed
updateMarks ==
    /\ builderPc = "open" /\ ListEnabled
    /\ \E qid \in SectionIds(questions, currentSection), value \in MarkInputs :
          IF parseInt(value) = NaN \/ parseInt(value).n < 0
          THEN UNCHANGED <<questions, totalMarks, sectionMarks>>
          ELSE IF qid \in ActiveIds(questions, sectionConfig)
                  /\ ProjectedTotal(qid, parseInt(value).n) > maxMarks
          THEN UNCHANGED <<questions, totalMarks, sectionMarks>>
          ELSE /\ questions' = WithMarks(qid, parseInt(value).n)
               /\ calculateTotals(WithMarks(qid, parseInt(value).n), sectionConfig,
                                  currentSection)
    /\ UNCHANGED <<normalizerVars, parserVars, imageVars, rendererVars, currentSection,
                   sectionConfig, toggleSkip, builderPc>>

NextBuilder == setSection \/ toggleSkipSection \/ addQuestion \/ removeQuestion \/ updateMarks

SpecBuilder == InitBuilder /\ [][NextBuilder]_vars

\* C30: after any sequence of addQuestion, removeQuestion, updateMarks, setSection and
\* toggleSkipSection, the sum of the marks of the questions in sections that are not
\* skipped, which is the grand total on display, does not exceed maxMarks.
C30_TotalWithinMax ==
    builderPc = "open" =>
        /\ totalMarks = SumMarks(questions, ActiveIds(questions, sectionConfig))
        /\ totalMarks <= maxMarks

\* Two questions of 20 marks stand in two sections, neither skipped: the grand total on
\* display is 40
C30_TotalOfForty ==
    /\ builderPc = "open"
    /\ Len(questions) = 2
    /\ questions[1].marks = 20 /\ questions[2].marks = 20
    /\ questions[1].section # questions[2].section
    /\ \A sec \in Sections : ~sectionConfig[sec]
    /\ totalMarks = 40

=============================================================================
